---- MODULE Spec2Model ----
(***************************************************************************)
(* A model of askds' patch pipeline (src/src/fix.ts).                      *)
(*                                                                         *)
(* Text is a sequence of tokens.  Each marker tag of constants.ts is one   *)
(* token (no tag is a substring of another, and no operation of the        *)
(* parser cuts inside one); the other tokens are single characters.        *)
(*                                                                         *)
(* SpecParse: identifyFixableFiles, fed one raw line of the analysis at a  *)
(*            time (the lines `analysis.split("\n")` produces).            *)
(* SpecFix:   applyAiFixes / processFileFix over a batch of fix records,   *)
(*            one action per continuation of the event loop.               *)
(***************************************************************************)
EXTENDS Naturals, Sequences, FiniteSets

VARIABLES
    mode,        \* which subsystem this behaviour exercises: "parse" | "fix"
    \* ---- identifyFixableFiles
    files,       \* the reduce accumulator `acc` (fix.ts:101-133)
    nLines,      \* raw lines consumed so far
    twin,        \* the accumulator for the same input with a line break put
                 \* between every end tag directly followed by a path tag
    opened,      \* per pushed record: was an end-marker line seen while it was last
    wf,          \* reading of the input as well-formed blocks: "idle" | "path" | "body" | "bad"
    expected,    \* the records the well-formed blocks read so far describe
    cur,         \* the block being read: [filePath, fixedCode]
    seen,        \* per pushed record: its path when pushed, its body when its first end
                 \* marker was seen, the lines since its last start marker before that,
                 \* and whether a start marker discarded text
    \* ---- applyAiFixes
    filesToFix,  \* the records of the batch (fix.ts:71)
    autoApply,   \* options.autoApply
    disk,        \* path -> content, or Missing
    pc,          \* per record: position of its processFileFix call
    original,    \* per record: originalContent (fix.ts:150)
    fixed,       \* per record: fixedContent (fix.ts:164), or Null
    answer,      \* per record: what promptConfirmation returned, or NotAsked
    outcome,     \* per record: what processFileFix returned: TRUE | FALSE | Pending | Threw
    writes,      \* per record: the contents it wrote, in order
    existed,     \* per record: did the target exist when processFileFix was called
    run,         \* the Promise.all of applyAiFixes: "idle" | "running" | "fulfilled" | "rejected" | "exited"
    response,    \* per record: the aiResponse of its model call (fix.ts:159), or Null
    calls,       \* per record: how many times processFileFix was started for it
    completed,   \* the records in the order their processFileFix calls settled
    results,     \* what applyAiFixes returned (fix.ts:79), or Null
    exitCode,    \* the code the process ended with, or Null
    \* ---- extractFixedCode on its own
    aiText,      \* the argument aiResponse
    extracted,   \* has the call returned
    fixedCode,   \* what it returned
    \* ---- cli.action (part_007:17-91)
    cliPc,       \* where the action is
    testCommandAndArgs, \* the positional arguments of the command line
    apiKeySet,   \* is the API key of the analysis provider in the environment
    task,        \* per task of loadRepoData: "unstarted" | "running" | "done" | "failed"
    taskOut,     \* per task: what its promise fulfilled with
    spawned,     \* the subprocesses spawned so far, in order
    settled,     \* the tasks in the order they settled
    analyzeArgs, \* the arguments analyzeTestFailure was invoked with, or Null
    requests,    \* the network requests made so far
    cliExit,     \* the exit code of the process, or Null
    configFix,   \* config.fix
    configCache, \* config.cache
    cacheFile,   \* node_modules/.cache/cache.json: absent, unparsable, or holding an analysis
    analysis,    \* the variable `analysis` of the action (part_007:33), or Null while undefined
    printed,     \* the arguments of process.stdout.write at part_007:88, in order
    applyCalls,  \* how many times applyAiFixes was invoked
    sourceModified, \* has a source file been written
    testExit,    \* the close event of the test command: [code, output], or Null
    \* ---- one call of streamAIResponse (api.ts:25-129)
    sPc,         \* "start" | "requesting" | "streaming" | "settled"
    keySet,      \* api.apiKey is set
    streamed,    \* appendReasoningMessages
    hideReasoning, \* config.hideReasoning
    timeoutMs,   \* config.timeout
    timer,       \* the timeout of api.ts:46: "unset" | "armed" | "fired" | "cleared"
    aborted,     \* controller.signal.aborted
    chunkCount,  \* chunks consumed
    fullContent, \* the content accumulator
    fullReasoning, \* the reasoning accumulator
    reasoningLog, \* what was handed to ui.appendReasoningLog, in order
    arrived,     \* the chunks the stream has delivered, in arrival order
    sResult,     \* what the call settled with, or Null
    \* ---- one call of executeCommand (commands.ts:27-60)
    eStatus,     \* the returned promise: "pending" | "resolved" | "rejected"
    hasOnData,   \* was options.onData supplied
    eArrived,    \* the data events so far, in arrival order: [stream, text]
    output,      \* the local `output`
    onDataCalls, \* the arguments onData was called with, in order
    eResult,     \* what the promise settled with, or Null
    \* ---- the LogStore (commands.ts:198-272)
    lsOutputLog,     \* LogStore.outputLog
    lsReasoningLog,  \* LogStore.reasoningLog
    listeners,       \* LogStore.listeners
    debounceTimeout, \* LogStore.debounceTimeout: the handle of a timer, or Null
    timers,          \* the pending timers of the runtime: [id, elapsed]
    nextTimer,       \* the handle the next setTimeout returns
    appendedOutput,  \* the texts passed to appendOutput since the last clear
    appendedReasoning, \* the texts passed to appendReasoning since the last clear
    storeCalls,      \* append and clear calls made so far
    nAppends,        \* append calls made so far
    sinceAppend,     \* the time since the last append call, up to the debounce interval
    shortGaps,       \* has every append followed the previous one by less than the interval
    everCleared,     \* has clear been called
    earlyNotify,     \* has a timer notified less than the interval after an append
    lst,             \* per listener: what happened to it
    \* ---- the ui object (ui.tsx:6-56) and the SIGINT handler (part_007:12-15)
    isInitialized,   \* ui.tsx:6
    unmount,         \* ui.tsx:7: has `unmount` been assigned
    isTTY,           \* process.stdin.isTTY
    inkCalls,        \* the calls of ink's render and of the unmount it returned, in order
    stdoutWrites,    \* the arguments of process.stdout.write, in order
    uiAppends,       \* the append calls made on ui: [kind, text, wasInit]
    lastDestroy,     \* how many of them preceded the last destroy that unmounted
    uiCalls,         \* calls made on ui so far
    exitBy,          \* the signal whose handler ended the process: "" | "SIGINT"
    uiExit           \* the exit code of the process, or Null

parseVars == <<files, nLines, twin, opened, wf, expected, cur, seen>>
fixVars == <<filesToFix, autoApply, disk, pc, original, fixed, answer, outcome, writes, existed, run,
             response, calls, completed, results, exitCode>>
extractVars == <<aiText, extracted, fixedCode>>
cliRest == <<configFix, configCache, cacheFile, analysis, printed, applyCalls, sourceModified,
            testExit>>
cliVars == <<cliPc, testCommandAndArgs, apiKeySet, task, taskOut, spawned, settled, analyzeArgs,
             requests, cliExit, cliRest>>
streamVars == <<sPc, keySet, streamed, hideReasoning, timeoutMs, timer, aborted, chunkCount,
                fullContent, fullReasoning, reasoningLog, arrived, sResult>>
execVars == <<eStatus, hasOnData, eArrived, output, onDataCalls, eResult>>
storeVars == <<lsOutputLog, lsReasoningLog, listeners, debounceTimeout, timers, nextTimer>>
logGhosts == <<appendedOutput, appendedReasoning, storeCalls, nAppends, sinceAppend, shortGaps,
               everCleared, earlyNotify, lst>>
logVars == <<storeVars, logGhosts>>
uiVars == <<isInitialized, unmount, isTTY, inkCalls, stdoutWrites, uiAppends, lastDestroy,
            uiCalls, exitBy, uiExit>>
moreVars == <<execVars, logVars, uiVars>>
baseVars == <<parseVars, fixVars, extractVars, cliVars, streamVars>>
auxVars == <<extractVars, cliVars, streamVars, moreVars>>
vars == <<mode, parseVars, fixVars, auxVars>>

ExtractIdle ==
    /\ aiText = <<>>
    /\ extracted = FALSE
    /\ fixedCode = <<>>

CliIdle ==
    /\ cliPc = "idle"
    /\ testCommandAndArgs = <<>>
    /\ apiKeySet = FALSE
    /\ task = <<>>
    /\ taskOut = <<>>
    /\ spawned = <<>>
    /\ settled = <<>>
    /\ analyzeArgs = <<>>
    /\ requests = 0
    /\ cliExit = <<>>
    /\ configFix = FALSE
    /\ configCache = FALSE
    /\ cacheFile = [kind |-> "absent", analysis |-> <<>>]
    /\ analysis = <<>>
    /\ printed = <<>>
    /\ applyCalls = 0
    /\ sourceModified = FALSE
    /\ testExit = <<>>

StreamIdle ==
    /\ sPc = "idle"
    /\ keySet = FALSE
    /\ streamed = FALSE
    /\ hideReasoning = FALSE
    /\ timeoutMs = 0
    /\ timer = "unset"
    /\ aborted = FALSE
    /\ chunkCount = 0
    /\ fullContent = <<>>
    /\ fullReasoning = <<>>
    /\ reasoningLog = <<>>
    /\ arrived = <<>>
    /\ sResult = <<>>

ExecIdle ==
    /\ eStatus = "idle"
    /\ hasOnData = FALSE
    /\ eArrived = <<>>
    /\ output = <<>>
    /\ onDataCalls = <<>>
    /\ eResult = <<>>

\* commands.ts:201-204: the field initializers of the one LogStore
StoreInit ==
    /\ lsOutputLog = <<>>
    /\ lsReasoningLog = <<>>
    /\ listeners = <<>>
    /\ debounceTimeout = <<>>
    /\ timers = {}
    /\ nextTimer = 1

LogIdle ==
    /\ StoreInit
    /\ appendedOutput = <<>>
    /\ appendedReasoning = <<>>
    /\ storeCalls = 0
    /\ nAppends = 0
    /\ sinceAppend = 0
    /\ shortGaps = TRUE
    /\ everCleared = FALSE
    /\ earlyNotify = FALSE
    /\ lst = <<>>

UiIdle ==
    /\ isInitialized = FALSE
    /\ unmount = FALSE
    /\ isTTY = FALSE
    /\ inkCalls = <<>>
    /\ stdoutWrites = <<>>
    /\ uiAppends = <<>>
    /\ lastDestroy = 0
    /\ uiCalls = 0
    /\ exitBy = ""
    /\ uiExit = <<>>

MoreIdle == ExecIdle /\ LogIdle /\ UiIdle

AuxIdle == ExtractIdle /\ CliIdle /\ StreamIdle /\ MoreIdle

----------------------------------------------------------------------------
(* Bounds *)

MaxLines == 5
MaxFiles == 2
MaxText == 4
MaxChunks == 2
MaxData == 3
MaxStoreCalls == 3
MaxUiCalls == 4

----------------------------------------------------------------------------
(* Tokens and strings *)

FILE_PATH_TAG == "<<<FILE_PATH>>>"
FIX_START_TAG == "<<<FIX_START>>>"
FIX_END_TAG == "<<<FIX_END>>>"
UPDATED_CODE_START_TAG == "<updated-code>"
UPDATED_CODE_END_TAG == "</updated-code>"
NL == "\n"
SP == " "
SEP == "/"
DOTDOT == ".."

MarkerTags == {FILE_PATH_TAG, FIX_START_TAG, FIX_END_TAG}
Whitespace == {NL, SP}

Min(S) == CHOOSE x \in S : \A y \in S : x <= y

\* String.prototype.startsWith(t) for a one-token t
startsWith(s, t) == Len(s) >= 1 /\ s[1] = t

\* String.prototype.endsWith(t) for a one-token t
endsWith(s, t) == Len(s) >= 1 /\ s[Len(s)] = t

\* String.prototype.includes(t) for a one-token t
includes(s, t) == \E i \in 1..Len(s) : s[i] = t

\* String.prototype.indexOf(t), 1-based; 0 when absent (JS: -1)
indexOf(s, t) == IF includes(s, t) THEN Min({i \in 1..Len(s) : s[i] = t}) ELSE 0

\* String.prototype.slice(from) with a 0-based `from` (tokens from+1 ..)
sliceFrom(s, from) == SubSeq(s, from + 1, Len(s))

\* String.prototype.replace(t, r) with a string pattern: the FIRST occurrence only
replaceFirst(s, t, r) ==
    IF ~includes(s, t) THEN s
    ELSE LET i == indexOf(s, t)
         IN SubSeq(s, 1, i - 1) \o r \o SubSeq(s, i + 1, Len(s))

\* String.prototype.split(sep) for a one-token sep
RECURSIVE split(_, _)
split(s, sep) ==
    IF ~includes(s, sep) THEN <<s>>
    ELSE LET i == indexOf(s, sep)
         IN <<SubSeq(s, 1, i - 1)>> \o split(SubSeq(s, i + 1, Len(s)), sep)

RECURSIVE trimStart(_)
trimStart(s) == IF Len(s) >= 1 /\ s[1] \in Whitespace THEN trimStart(Tail(s)) ELSE s

RECURSIVE trimEnd(_)
trimEnd(s) ==
    IF Len(s) >= 1 /\ s[Len(s)] \in Whitespace THEN trimEnd(SubSeq(s, 1, Len(s) - 1)) ELSE s

\* String.prototype.trim()
trim(s) == trimEnd(trimStart(s))

----------------------------------------------------------------------------
(* identifyFixableFiles (fix.ts:87-138) *)

\* fix.ts:93-99, the flatMap callback
splitConcatenatedTags(line) ==
    IF includes(line, FIX_END_TAG) /\ includes(line, FILE_PATH_TAG)
    THEN split(replaceFirst(line, FIX_END_TAG, <<FIX_END_TAG, NL>>), NL)
    ELSE <<line>>

\* fix.ts:108-112
stripLeadingSlash(filePath) ==
    IF startsWith(filePath, SEP) THEN sliceFrom(filePath, 1) ELSE filePath

\* last.fixedCode = "" / last.isComplete = true / last.fixedCode += line
setLast(acc, field, value) == [acc EXCEPT ![Len(acc)][field] = value]

\* a reduce callback whose start branch leaves the body as it is
reduceLineKeepingOnStart(acc, line) ==
    LET hasLast == Len(acc) >= 1
        isFilePath == startsWith(line, FILE_PATH_TAG)
        isFixStart == startsWith(line, FIX_START_TAG)
        isFixEnd == startsWith(line, FIX_END_TAG)
    IN  IF isFilePath
        THEN Append(acc, [filePath |-> stripLeadingSlash(sliceFrom(line, 1)),
                          isComplete |-> FALSE,
                          fixedCode |-> <<>>])
        ELSE IF isFixStart /\ hasLast THEN acc
        ELSE IF isFixEnd /\ hasLast THEN setLast(acc, "isComplete", TRUE)
        ELSE IF hasLast /\ ~acc[Len(acc)].isComplete
        THEN setLast(acc, "fixedCode", acc[Len(acc)].fixedCode \o line)
        ELSE acc

\* fix.ts:101-133, the reduce callback.  The start and end branches (fix.ts:120,
\* 124) test `last` only; the append branch (fix.ts:128) also tests !last.isComplete.
reduceLine(acc, line) ==
    LET hasLast == Len(acc) >= 1
        isFilePath == startsWith(line, FILE_PATH_TAG)
        isFixStart == startsWith(line, FIX_START_TAG)
        isFixEnd == startsWith(line, FIX_END_TAG)
    IN  IF isFilePath
        THEN Append(acc, [filePath |-> stripLeadingSlash(sliceFrom(line, 1)),
                          isComplete |-> FALSE,
                          fixedCode |-> <<>>])
        ELSE IF isFixStart /\ hasLast THEN setLast(acc, "fixedCode", <<>>)
        ELSE IF isFixEnd /\ hasLast THEN setLast(acc, "isComplete", TRUE)
        ELSE IF hasLast /\ ~acc[Len(acc)].isComplete
        THEN setLast(acc, "fixedCode", acc[Len(acc)].fixedCode \o line)
        ELSE acc

RECURSIVE reduceLines(_, _)
reduceLines(acc, lines) ==
    IF lines = <<>> THEN acc ELSE reduceLines(reduceLine(acc, Head(lines)), Tail(lines))

\* fix.ts:93-133 for one raw line of the split: flatMap, trim, reduce
consumeLine(acc, raw) ==
    LET pieces == splitConcatenatedTags(raw)
    IN reduceLines(acc, [i \in 1..Len(pieces) |-> trim(pieces[i])])

\* the filter without its isComplete test
keepFileAnyState(file) == file.filePath # <<>>

\* fix.ts:135-137
keepFile(file) == file.isComplete /\ file.filePath # <<>>

identifyFixableFiles(acc) == SelectSeq(acc, keepFile)

\* the indices of `acc` that identifyFixableFiles returns
keptIndices(acc) == {i \in 1..Len(acc) : keepFile(acc[i])}

----------------------------------------------------------------------------
(* processFileFix's path (fix.ts:145): path.join(process.cwd(), file.filePath) *)

Cwd == <<<<"w">>>>

RECURSIVE normalize(_, _)
normalize(stack, segs) ==
    IF segs = <<>> THEN stack
    ELSE LET s == Head(segs)
         IN IF s = <<>> THEN normalize(stack, Tail(segs))
            ELSE IF s = <<DOTDOT>>
            THEN normalize(IF stack = <<>> THEN stack ELSE SubSeq(stack, 1, Len(stack) - 1),
                           Tail(segs))
            ELSE normalize(Append(stack, s), Tail(segs))

fullPath(filePath) == normalize(Cwd, split(filePath, SEP))

insideCwd(p) == Len(p) > Len(Cwd) /\ SubSeq(p, 1, Len(Cwd)) = Cwd

----------------------------------------------------------------------------
(* The inputs of the parser: the raw lines of an analysis *)

LineSet ==
    { <<>>,
      <<"a">>,
      <<SP, "b", SP>>,
      <<FILE_PATH_TAG, "a">>,
      <<FILE_PATH_TAG, SEP, "a">>,
      <<FILE_PATH_TAG, SEP, SEP, "a">>,
      <<FILE_PATH_TAG, DOTDOT, SEP, "a">>,
      <<FILE_PATH_TAG>>,
      <<FIX_START_TAG>>,
      <<FIX_END_TAG>>,
      <<FIX_END_TAG, FILE_PATH_TAG, "b">>,
      <<"a", FIX_END_TAG, FILE_PATH_TAG, "b">>,
      <<FIX_END_TAG, FIX_END_TAG, FILE_PATH_TAG, "b">>,
      <<"a", FIX_END_TAG>> }

\* the line with a line break between every end tag directly followed by a path tag
RECURSIVE insertBreaks(_)
insertBreaks(s) ==
    IF s = <<>> THEN <<>>
    ELSE IF Len(s) >= 2 /\ s[1] = FIX_END_TAG /\ s[2] = FILE_PATH_TAG
    THEN <<FIX_END_TAG, NL>> \o insertBreaks(Tail(s))
    ELSE <<s[1]>> \o insertBreaks(Tail(s))

RECURSIVE consumeLines(_, _)
consumeLines(acc, raws) ==
    IF raws = <<>> THEN acc ELSE consumeLines(consumeLine(acc, Head(raws)), Tail(raws))

\* per pushed record, whether an end-marker line followed it before the next path marker
RECURSIVE markOpened(_, _)
markOpened(o, lines) ==
    IF lines = <<>> THEN o
    ELSE LET l == Head(lines)
         IN markOpened(IF startsWith(l, FILE_PATH_TAG) THEN Append(o, FALSE)
                       ELSE IF startsWith(l, FIX_END_TAG) /\ Len(o) >= 1
                       THEN [o EXCEPT ![Len(o)] = TRUE]
                       ELSE o,
                       Tail(lines))

\* what the lines did to each pushed record up to its first end marker: the
\* lines after its last start marker, whether that marker discarded text, and
\* the body the record had when the end marker was seen
RECURSIVE trackBodies(_, _, _)
trackBodies(s, acc, lines) ==
    IF lines = <<>> THEN s
    ELSE LET l == Head(lines)
             n == Len(s)
             open == n >= 1 /\ s[n].atEnd = <<>>
             s2 == IF startsWith(l, FILE_PATH_TAG)
                   THEN Append(s, [filePath |-> stripLeadingSlash(sliceFrom(l, 1)),
                                   atEnd |-> <<>>, sinceStart |-> <<>>, discarded |-> FALSE])
                   ELSE IF ~open THEN s
                   ELSE IF startsWith(l, FIX_START_TAG)
                   THEN [s EXCEPT ![n].sinceStart = <<>>,
                                  ![n].discarded = @ \/ s[n].sinceStart # <<>>]
                   ELSE IF startsWith(l, FIX_END_TAG)
                   THEN [s EXCEPT ![n].atEnd = <<acc[n].fixedCode>>]
                   ELSE [s EXCEPT ![n].sinceStart = @ \o l]
         IN trackBodies(s2, reduceLine(acc, l), Tail(lines))

\* the reading of a raw line as part of a well-formed block
isPathLine(l) == Len(l) >= 2 /\ l[1] = FILE_PATH_TAG /\ l[2] # SEP
isPlainLine(l) == l = <<>> \/ l[1] \notin MarkerTags

ParseInit ==
    /\ files = <<>>
    /\ nLines = 0
    /\ twin = <<>>
    /\ opened = <<>>
    /\ wf = "idle"
    /\ expected = <<>>
    /\ cur = [filePath |-> <<>>, fixedCode |-> <<>>]
    /\ seen = <<>>

FixIdle ==
    /\ filesToFix = <<>>
    /\ autoApply = FALSE
    /\ disk = <<>>
    /\ pc = <<>>
    /\ original = <<>>
    /\ fixed = <<>>
    /\ answer = <<>>
    /\ outcome = <<>>
    /\ writes = <<>>
    /\ existed = <<>>
    /\ run = "idle"
    /\ response = <<>>
    /\ calls = <<>>
    /\ completed = <<>>
    /\ results = <<>>
    /\ exitCode = <<>>

InitParse == mode = "parse" /\ ParseInit /\ FixIdle /\ AuxIdle

\* one more raw line of the analysis goes through flatMap, trim and reduce
FeedLine(raw) ==
    /\ mode = "parse"
    /\ nLines < MaxLines
    /\ nLines' = nLines + 1
    /\ files' = consumeLine(files, raw)
    /\ twin' = consumeLines(twin, split(insertBreaks(raw), NL))
    /\ opened' = LET pieces == splitConcatenatedTags(raw)
                 IN markOpened(opened, [i \in 1..Len(pieces) |-> trim(pieces[i])])
    /\ seen' = LET pieces == splitConcatenatedTags(raw)
               IN trackBodies(seen, files, [i \in 1..Len(pieces) |-> trim(pieces[i])])
    /\ wf' = CASE wf = "idle" /\ isPathLine(raw) -> "path"
               [] wf = "idle" /\ isPlainLine(raw) -> "idle"
               [] wf = "path" /\ raw = <<FIX_START_TAG>> -> "body"
               [] wf = "body" /\ raw = <<FIX_END_TAG>> -> "idle"
               [] wf = "body" /\ isPlainLine(raw) -> "body"
               [] OTHER -> "bad"
    /\ cur' = CASE wf = "idle" /\ isPathLine(raw) ->
                     [filePath |-> Tail(raw), fixedCode |-> <<>>]
                [] wf = "body" /\ isPlainLine(raw) ->
                     [cur EXCEPT !.fixedCode = @ \o trim(raw)]
                [] OTHER -> cur
    /\ expected' = IF wf = "body" /\ raw = <<FIX_END_TAG>>
                   THEN Append(expected, [filePath |-> cur.filePath,
                                          isComplete |-> TRUE,
                                          fixedCode |-> cur.fixedCode])
                   ELSE expected
    /\ UNCHANGED <<mode, fixVars, auxVars>>

NextParse == \E raw \in LineSet : FeedLine(raw)

SpecParse == InitParse /\ [][NextParse]_vars

----------------------------------------------------------------------------
(* applyAiFixes and processFileFix (fix.ts:25-80, 140-187) *)

\* an optional value: absent, or one value
Null == <<>>
Some(v) == <<v>>
Missing == Null

\* String.prototype.slice(from, to), 0-based, `to` exclusive; empty when to <= from
slice(s, from, to) == SubSeq(s, from + 1, to)

\* an extraction that takes an unclosed block to run to the end of the response
extractToEndWhenUnclosed(aiResponse) ==
    LET start == indexOf(aiResponse, UPDATED_CODE_START_TAG)
        end == indexOf(aiResponse, UPDATED_CODE_END_TAG)
    IN IF start = 0 THEN Null
       ELSE IF end = 0 THEN Some(trim(sliceFrom(aiResponse, start)))
       ELSE Some(trim(slice(aiResponse, start, end - 1)))

\* fix.ts:25-32 (with the 1-based indexOf, `start + length` is `start`, and the
\* 0-based exclusive `end` is indexOf - 1)
extractFixedCode(aiResponse) ==
    LET start == indexOf(aiResponse, UPDATED_CODE_START_TAG)
        end == indexOf(aiResponse, UPDATED_CODE_END_TAG)
    IN IF start = 0 \/ end = 0 THEN Null
       ELSE Some(trim(slice(aiResponse, start, end - 1)))

\* the test of fix.ts:165 without the comparison with the original
noFixUnlessEmpty(fixedContent, originalContent) ==
    fixedContent = Null \/ fixedContent[1] = <<>>

\* the test of fix.ts:165 without the falsiness of the empty string
noFixUnlessBlank(fixedContent, originalContent) ==
    fixedContent = Null \/ fixedContent[1] = originalContent

\* fix.ts:165: !fixedContent || fixedContent === originalContent
noFix(fixedContent, originalContent) ==
    \/ fixedContent = Null
    \/ fixedContent[1] = <<>>
    \/ fixedContent[1] = originalContent

\* a test that takes only an explicit "no" as a refusal
declinedOnlyByNo(confirmed) == confirmed = "false"

\* fix.ts:175: !confirmed, for what prompts returns in response.confirm (fix.ts:48)
declined(confirmed) == confirmed # "true"

\* a write of the proposed content as it is
withoutNewlineCheck(fixedContent) == fixedContent

\* fix.ts:183
withTrailingNewline(fixedContent) ==
    fixedContent \o (IF endsWith(fixedContent, NL) THEN <<>> ELSE <<NL>>)

\* a creation that does not look at the disk
needsCreateAlways(d, path) == TRUE

\* fix.ts:146: !fs.existsSync(fullPath)
needsCreate(d, path) == d[path] = Missing

FixPaths == {"f", "g"}

\* what the working tree holds for a path before the run
Contents == {Missing, Some(<<"x">>), Some(<<"x", NL>>)}

\* what the apply model may answer
AiResponses ==
    { <<"y", UPDATED_CODE_END_TAG>>,
      <<UPDATED_CODE_START_TAG, UPDATED_CODE_END_TAG>>,
      <<"p", UPDATED_CODE_START_TAG, NL, "x", NL, UPDATED_CODE_END_TAG, "s">>,
      <<UPDATED_CODE_START_TAG, "y", UPDATED_CODE_END_TAG>>,
      <<UPDATED_CODE_START_TAG, "y">> }

\* what response.confirm holds: yes, no (also the empty input), or nothing (aborted prompt)
Confirmations == {"true", "false", "undefined"}

RECURSIVE SeqsUpTo(_, _)
SeqsUpTo(S, n) ==
    IF n = 0 THEN {<<>>}
    ELSE LET shorter == SeqsUpTo(S, n - 1)
         IN shorter \cup {Append(q, x) : q \in {r \in shorter : Len(r) = n - 1}, x \in S}

Records == 1..Len(filesToFix)

\* a result list in the order the calls settled
gatherInCompletionOrder(out, order) == [k \in 1..Len(order) |-> out[order[k]]]

\* fix.ts:75-79: Promise.all fulfils with the values in the order of the
\* promises it was given, whatever order they settled in
gather(out, order) == [i \in 1..Len(out) |-> out[i]]

\* an exit code that tests whether some file was applied
exitCodeIfSomeApplied(res) == IF \E k \in 1..Len(res) : res[k] = "true" THEN 0 ELSE 1

\* part_007:85: process.exit(success ? 0 : 1), where success is the boolean[]
\* applyAiFixes returned: an array, which is truthy whatever it holds
exitCodeFor(res) == IF res \in Seq({"true", "false"}) THEN 0 ELSE 1

InitFix ==
    /\ mode = "fix"
    /\ ParseInit
    /\ AuxIdle
    /\ filesToFix \in SeqsUpTo(FixPaths, MaxFiles)
    /\ autoApply \in BOOLEAN
    /\ disk \in [FixPaths -> Contents]
    /\ pc = [i \in Records |-> "new"]
    /\ original = [i \in Records |-> <<>>]
    /\ fixed = [i \in Records |-> Null]
    /\ answer = [i \in Records |-> "notAsked"]
    /\ outcome = [i \in Records |-> "pending"]
    /\ writes = [i \in Records |-> <<>>]
    /\ existed = [i \in Records |-> FALSE]
    /\ response = [i \in Records |-> Null]
    /\ calls = [i \in Records |-> 0]
    /\ completed = <<>>
    /\ run = IF filesToFix = <<>> THEN "fulfilled" ELSE "running"
    /\ results = IF filesToFix = <<>> THEN Some(<<>>) ELSE Null
    /\ exitCode = Null

\* Promise.all (fix.ts:75-77) once `out` are the outcomes and `p` the positions:
\* it rejects with the first rejection, after the map has called every record,
\* and fulfils when every promise has
settle(p, out) ==
    IF run # "running" \/ \E i \in Records : p[i] = "new" THEN run
    ELSE IF \E i \in Records : out[i] = "threw" THEN "rejected"
    ELSE IF \A i \in Records : out[i] \in {"true", "false"} THEN "fulfilled"
    ELSE run

\* processFileFix returns or throws
finish(i, result) ==
    /\ pc' = [pc EXCEPT ![i] = "done"]
    /\ outcome' = [outcome EXCEPT ![i] = result]
    /\ completed' = Append(completed, i)
    /\ run' = settle([pc EXCEPT ![i] = "done"], [outcome EXCEPT ![i] = result])
    /\ results' = IF run = "running" /\ run' = "fulfilled"
                  THEN Some(gather(outcome', completed'))
                  ELSE results

\* a write of the proposed content that reports the record as not applied
writeFixedReportingFalse(i, ok) ==
    IF ok
    THEN /\ disk' = [disk EXCEPT ![filesToFix[i]] = Some(withTrailingNewline(fixed'[i][1]))]
         /\ writes' = [writes EXCEPT ![i] = Append(@, withTrailingNewline(fixed'[i][1]))]
         /\ finish(i, "false")
    ELSE /\ UNCHANGED <<disk, writes>>
         /\ finish(i, "threw")

\* fix.ts:178-186: the write of the proposed content, which may throw
writeFixed(i, ok) ==
    IF ok
    THEN /\ disk' = [disk EXCEPT ![filesToFix[i]] = Some(withTrailingNewline(fixed'[i][1]))]
         /\ writes' = [writes EXCEPT ![i] = Append(@, withTrailingNewline(fixed'[i][1]))]
         /\ finish(i, "true")
    ELSE /\ UNCHANGED <<disk, writes>>
         /\ finish(i, "threw")

\* once applyAiFixes has rejected, the action of part_007:80 has too, and the
\* runtime ends the process before another callback of a record runs
alive == run = "running"
mapDone == \A i \in Records : pc[i] # "new"

\* fix.ts:76, 145-150: the map calls processFileFix for the next record, which
\* runs to its first await: the creation of a missing file, then the read is issued
Call(i, ok) ==
    /\ mode = "fix" /\ run = "running"
    /\ i \in Records /\ pc[i] = "new"
    /\ \A j \in 1..(i - 1) : pc[j] # "new"
    /\ existed' = [existed EXCEPT ![i] = disk[filesToFix[i]] # Missing]
    /\ calls' = [calls EXCEPT ![i] = @ + 1]
    /\ IF ~needsCreate(disk, filesToFix[i])
       THEN /\ ok
            /\ pc' = [pc EXCEPT ![i] = "reading"]
            /\ run' = settle([pc EXCEPT ![i] = "reading"], outcome)
            /\ UNCHANGED <<disk, writes, outcome, completed, results>>
       ELSE IF ok
       THEN /\ disk' = [disk EXCEPT ![filesToFix[i]] = Some(<<>>)]
            /\ writes' = [writes EXCEPT ![i] = Append(@, <<>>)]
            /\ pc' = [pc EXCEPT ![i] = "reading"]
            /\ run' = settle([pc EXCEPT ![i] = "reading"], outcome)
            /\ UNCHANGED <<outcome, completed, results>>
       ELSE /\ UNCHANGED <<disk, writes>>
            /\ finish(i, "threw")
    /\ UNCHANGED <<mode, auxVars, parseVars, filesToFix, autoApply, original, fixed, answer,
                   response, exitCode>>

\* fix.ts:150-163: the read settles; on success the messages are built and the
\* model call is issued
ReadDone(i, ok) ==
    /\ mode = "fix" /\ alive /\ mapDone
    /\ i \in Records /\ pc[i] = "reading"
    /\ IF ok
       THEN /\ original' = [original EXCEPT ![i] = disk[filesToFix[i]][1]]
            /\ pc' = [pc EXCEPT ![i] = "asking"]
            /\ UNCHANGED <<outcome, run, completed, results>>
       ELSE /\ UNCHANGED original
            /\ finish(i, "threw")
    /\ UNCHANGED <<mode, auxVars, parseVars, filesToFix, autoApply, disk, fixed, answer, writes, existed,
                   response, calls, exitCode>>

\* fix.ts:159: the model call rejects (transport error or timeout)
AiFailed(i) ==
    /\ mode = "fix" /\ alive /\ mapDone
    /\ i \in Records /\ pc[i] = "asking"
    /\ finish(i, "threw")
    /\ UNCHANGED <<mode, auxVars, parseVars, filesToFix, autoApply, disk, original, fixed, answer,
                   writes, existed, response, calls, exitCode>>

\* fix.ts:159-186: the model call resolves; the fix is extracted, and then there
\* is nothing to apply, or the prompt is issued, or (auto-apply) the file is written
AiDone(i, aiResponse, ok) ==
    /\ mode = "fix" /\ alive /\ mapDone
    /\ i \in Records /\ pc[i] = "asking"
    /\ response' = [response EXCEPT ![i] = Some(aiResponse)]
    /\ fixed' = [fixed EXCEPT ![i] = extractFixedCode(aiResponse)]
    /\ IF noFix(fixed'[i], original[i])
       THEN /\ ok
            /\ finish(i, "false")
            /\ UNCHANGED <<disk, writes, answer>>
       ELSE IF ~autoApply
       THEN /\ ok
            /\ pc' = [pc EXCEPT ![i] = "prompting"]
            /\ answer' = [answer EXCEPT ![i] = "pending"]
            /\ UNCHANGED <<disk, writes, outcome, run, completed, results>>
       ELSE /\ writeFixed(i, ok)
            /\ UNCHANGED answer
    /\ UNCHANGED <<mode, auxVars, parseVars, filesToFix, autoApply, original, existed, calls, exitCode>>

\* fix.ts:42-48, 170-186: the prompt of record i is answered
Answer(i, confirmed, ok) ==
    /\ mode = "fix" /\ alive /\ mapDone
    /\ i \in Records /\ pc[i] = "prompting"
    /\ answer' = [answer EXCEPT ![i] = confirmed]
    /\ fixed' = fixed
    /\ IF declined(confirmed)
       THEN /\ ok
            /\ finish(i, "false")
            /\ UNCHANGED <<disk, writes>>
       ELSE writeFixed(i, ok)
    /\ UNCHANGED <<mode, auxVars, parseVars, filesToFix, autoApply, original, existed, response, calls,
                   exitCode>>

\* part_007:80: nothing catches the rejection of applyAiFixes; the runtime ends
\* the process on the unhandled rejection, with code 1
Exit ==
    /\ mode = "fix" /\ run = "rejected"
    /\ run' = "exited"
    /\ exitCode' = Some(1)
    /\ UNCHANGED <<mode, auxVars, parseVars, filesToFix, autoApply, disk, pc, original, fixed, answer,
                   outcome, writes, existed, response, calls, completed, results>>

\* part_007:80-85: applyAiFixes returned; process.exit(success ? 0 : 1)
ProcessExit ==
    /\ mode = "fix" /\ run = "fulfilled"
    /\ run' = "exited"
    /\ exitCode' = Some(exitCodeFor(results[1]))
    /\ UNCHANGED <<mode, auxVars, parseVars, filesToFix, autoApply, disk, pc, original, fixed, answer,
                   outcome, writes, existed, response, calls, completed, results>>

NextFix ==
    \/ \E i \in Records, ok \in BOOLEAN : Call(i, ok)
    \/ \E i \in Records, ok \in BOOLEAN : ReadDone(i, ok)
    \/ \E i \in Records : AiFailed(i)
    \/ \E i \in Records, r \in AiResponses, ok \in BOOLEAN : AiDone(i, r, ok)
    \/ \E i \in Records, c \in Confirmations, ok \in BOOLEAN : Answer(i, c, ok)
    \/ Exit
    \/ ProcessExit

SpecFix == InitFix /\ [][NextFix]_vars

----------------------------------------------------------------------------
(* Claims about identifyFixableFiles, checked under SpecParse *)

\* C1: an input made of N well-formed blocks (path line, start line, body lines
\* that begin with no marker token, end line), with commentary lines between
\* them, yields exactly the N records of the blocks, in order, each complete,
\* with the block's path and the concatenation of its trimmed body lines.
C1_WellFormedBlocks == wf = "idle" => identifyFixableFiles(files) = expected

\* C2: a record whose path marker is not followed by an end marker before the
\* next path marker or the end of the input is never returned, and every
\* returned record is complete and has a non-empty filePath.
C2_IncompleteDropped ==
    /\ Len(opened) = Len(files)
    /\ \A i \in 1..Len(files) : ~opened[i] => i \notin keptIndices(files)
    /\ \A i \in 1..Len(identifyFixableFiles(files)) :
          /\ identifyFixableFiles(files)[i].isComplete
          /\ identifyFixableFiles(files)[i].filePath # <<>>

\* an abandoned record, a returned record after it, and an unfinished last record
C2_Witness ==
    \E i, j \in 1..Len(files) :
        /\ i < j /\ j < Len(files)
        /\ ~opened[i] /\ files[i].filePath # <<>>
        /\ j \in keptIndices(files)
        /\ ~opened[Len(files)] /\ files[Len(files)].fixedCode # <<>>

\* C3: an end marker and the following path marker concatenated on one line
\* yield the same records as the same input with a line break between them.
C3_ConcatenatedSameAsSeparate == identifyFixableFiles(files) = identifyFixableFiles(twin)

\* C4: no returned record has a filePath that begins with a path separator.
C4_RelativePaths ==
    \A i \in 1..Len(identifyFixableFiles(files)) :
        ~startsWith(identifyFixableFiles(files)[i].filePath, SEP)

\* C5: the path processFileFix uses for a returned record lies inside the
\* working directory.
C5_InsideWorkingTree ==
    \A i \in 1..Len(identifyFixableFiles(files)) :
        insideCwd(fullPath(identifyFixableFiles(files)[i].filePath))

\* C32: once an end marker has completed a record, no later line changes its
\* filePath or its body: the record keeps the body it had when the end marker
\* was seen.
C32_CompleteRecordFrozen ==
    \A i \in 1..Len(files) :
        /\ files[i].filePath = seen[i].filePath
        /\ files[i].isComplete => seen[i].atEnd = Some(files[i].fixedCode)

C39_NoMarkerInBody ==
    \A i \in 1..Len(identifyFixableFiles(files)) :
        \A k \in 1..Len(identifyFixableFiles(files)[i].fixedCode) :
            identifyFixableFiles(files)[i].fixedCode[k] \notin MarkerTags

----------------------------------------------------------------------------
(* Claims about applyAiFixes and processFileFix, checked under SpecFix *)

\* the writes of record i that carry proposed content (the creation writes "")
proposedWrites(i) == {k \in 1..Len(writes[i]) : writes[i][k] # <<>>}
creationWrites(i) == {k \in 1..Len(writes[i]) : writes[i][k] = <<>>}

\* C6: when one record of a batch fails, applyAiFixes does not reject as a
\* whole: the other records are processed and the caller gets one result per
\* record.
C6_BatchIndependence ==
    (\E i, j \in Records : i # j /\ outcome[i] = "threw" /\ outcome[j] # "threw")
        => run \in {"running", "fulfilled"}

\* C7: in interactive mode at most one confirmation prompt is outstanding at
\* any time across the records of a run.
C7_OnePromptAtATime ==
    ~autoApply => Cardinality({i \in Records : pc[i] = "prompting"}) <= 1

\* C8: in interactive mode proposed content is written only after the prompt
\* of that record was answered yes, and any other answer gives applied=false
\* without a write of proposed content; in auto-apply mode no prompt is issued
\* and a usable fix is written at once.
C8_WriteOnlyAfterYes ==
    \A i \in Records :
        /\ ~autoApply /\ proposedWrites(i) # {} => answer[i] = "true"
        /\ answer[i] \in {"false", "undefined"} =>
              outcome[i] = "false" /\ proposedWrites(i) = {}
        /\ autoApply => answer[i] = "notAsked" /\ pc[i] # "prompting"
        /\ autoApply /\ fixed[i] # Null /\ ~noFix(fixed[i], original[i]) =>
              \/ outcome[i] = "true" /\ proposedWrites(i) # {}
              \/ outcome[i] = "threw"

\* one record written after a yes, another refused by an aborted prompt
C8_Witness ==
    /\ ~autoApply
    /\ \E i, j \in Records :
          /\ answer[i] = "true" /\ outcome[i] = "true" /\ proposedWrites(i) # {}
          /\ answer[j] = "undefined" /\ outcome[j] = "false"

\* C9 as stated: content identical to the original gives applied=false and no
\* filesystem write of any kind for that record, also when the target file did
\* not exist before the call.
C9_IdenticalNoWriteAtAll ==
    \A i \in Records :
        fixed[i] # Null /\ fixed[i][1] = original[i] =>
            outcome[i] = "false" /\ writes[i] = <<>>

\* C9 amended: content identical to the original gives applied=false and no
\* write of proposed content; a target that existed at the call is not written
\* at all, and for a target that did not the only write is its creation as an
\* empty file.
C9_IdenticalNoProposedWrite ==
    \A i \in Records :
        fixed[i] # Null /\ fixed[i][1] = original[i] =>
            /\ outcome[i] = "false"
            /\ writes[i] = IF existed[i] THEN <<>> ELSE << <<>> >>

\* an existing file answered with its own content, and a missing file answered
\* with an empty body
C9_Witness ==
    \E i, j \in Records :
        /\ existed[i] /\ fixed[i] = Some(original[i]) /\ original[i] # <<>>
        /\ outcome[i] = "false"
        /\ ~existed[j] /\ fixed[j] = Some(<<>>) /\ outcome[j] = "false"

\* C10 as stated: one record performs at most one filesystem write in total,
\* for every outcome.
C10_AtMostOneWrite == \A i \in Records : Len(writes[i]) <= 1

\* C10 amended: one record performs at most one write of proposed content,
\* only when it is applied, preceded by at most one write that creates the
\* target as an empty file, only when the target did not exist at the call
\* (at most two writes in total); the write of proposed content is the whole
\* proposed file.
C10_WritesPerRecord ==
    \A i \in Records :
        /\ Cardinality(proposedWrites(i)) <= 1
        /\ Cardinality(creationWrites(i)) <= 1
        /\ creationWrites(i) # {} => ~existed[i] /\ creationWrites(i) = {1}
        /\ proposedWrites(i) # {} <=> outcome[i] = "true"
        /\ outcome[i] = "true" =>
              writes[i][Len(writes[i])] = withTrailingNewline(fixed[i][1])

\* a record that created its target and then wrote it, and one that wrote once
C10_Witness ==
    \E i, j \in Records :
        /\ Len(writes[i]) = 2 /\ outcome[i] = "true"
        /\ Len(writes[j]) = 1 /\ outcome[j] = "true"

\* C31: the per-file result tells apart the ways a record ends with no file
\* modified: no applicable fix, a fix declined at the confirmation, an error.
\* Two records that ended in different ways have different results.
C31_OutcomeTellsCase ==
    \A i, j \in Records :
        LET way(k) == IF outcome[k] = "threw" THEN "error"
                      ELSE IF outcome[k] = "false" /\ answer[k] = "notAsked" THEN "noFix"
                      ELSE IF outcome[k] = "false" THEN "declined"
                      ELSE "other"
        IN way(i) # "other" /\ way(j) # "other" /\ way(i) # way(j) => outcome[i] # outcome[j]

\* C34 as stated: a record that ended with applied=false performed no write:
\* no file was created, truncated or modified for it.
C34_NotAppliedNoWrite ==
    \A i \in Records : outcome[i] = "false" => writes[i] = <<>>

\* C34 amended: a record that ended with applied=false wrote nothing to a
\* target that existed at the call; a target that did not exist has been
\* created as an empty file, and that is the record's only write.
C34_NotAppliedOnlyCreates ==
    \A i \in Records :
        outcome[i] = "false" => writes[i] = IF existed[i] THEN <<>> ELSE << <<>> >>

\* a fix declined for an existing file, and no fix extracted for a missing one
C34_Witness ==
    \E i, j \in Records :
        /\ outcome[i] = "false" /\ existed[i] /\ answer[i] \in {"false", "undefined"}
        /\ outcome[j] = "false" /\ ~existed[j] /\ response[j] # Null /\ fixed[j] = Null

\* C35: whenever processFileFix reports applied=true, what it wrote differs
\* from the content it read before the model call.
C35_AppliedMeansChanged ==
    \A i \in Records :
        outcome[i] = "true" => writes[i][Len(writes[i])] # original[i]

\* C36 as stated: processFileFix never writes an empty or whitespace-only file.
C36_NeverWritesBlank ==
    \A i \in Records : \A k \in 1..Len(writes[i]) : trim(writes[i][k]) # <<>>

\* C36 amended: a replacement body that is empty after trimming gives
\* applied=false and no write of it; the only empty content processFileFix
\* writes is the creation of a target that did not exist, as its first write,
\* so a file that existed is never truncated to nothing.
C36_BlankOnlyAsCreation ==
    \A i \in Records :
        /\ fixed[i] = Some(<<>>) => outcome[i] = "false"
        /\ \A k \in 1..Len(writes[i]) :
               trim(writes[i][k]) = <<>> => k = 1 /\ ~existed[i] /\ writes[i][k] = <<>>

\* an existing file answered with an empty replacement body is left as it was
C36_Witness ==
    \E i \in Records :
        /\ existed[i] /\ original[i] # <<>>
        /\ fixed[i] = Some(<<>>)
        /\ outcome[i] = "false" /\ writes[i] = <<>>
        /\ disk[filesToFix[i]] = Some(original[i])

\* C11: whenever processFileFix writes proposed content, what is written ends
\* with exactly one newline: the proposed content itself when it ends with a
\* newline, and the proposed content with one newline appended when it does not.
C11_OneTrailingNewline ==
    \A i \in Records : \A k \in proposedWrites(i) :
        LET w == writes[i][k]
        IN /\ endsWith(w, NL)
           /\ ~endsWith(SubSeq(w, 1, Len(w) - 1), NL)
           /\ w = IF endsWith(fixed[i][1], NL) THEN fixed[i][1]
                  ELSE Append(fixed[i][1], NL)

\* a record whose proposed content was written
C11_Witness ==
    \E i \in Records :
        /\ outcome[i] = "true" /\ proposedWrites(i) # {}
        /\ response[i] = Some(<<"p", UPDATED_CODE_START_TAG, NL, "x", NL, UPDATED_CODE_END_TAG, "s">>)

\* C13: when the response of the apply model lacks the opening or the closing
\* sentinel, the extraction is null, and the record is reported applied=false:
\* it does not throw and no proposed content is written for it.
C13_MissingSentinelNoFix ==
    \A i \in Records :
        /\ response[i] # Null
        /\ \/ ~includes(response[i][1], UPDATED_CODE_START_TAG)
           \/ ~includes(response[i][1], UPDATED_CODE_END_TAG)
        =>
            /\ fixed[i] = Null
            /\ outcome[i] = "false"
            /\ proposedWrites(i) = {}

\* one response without the closing sentinel and one without the opening one
C13_Witness ==
    \E i, j \in Records :
        /\ response[i] = Some(<<UPDATED_CODE_START_TAG, "y">>) /\ outcome[i] = "false"
        /\ response[j] = Some(<<"y", UPDATED_CODE_END_TAG>>) /\ outcome[j] = "false"

\* C14: when two records name the same path and both are applied, after the
\* run the file holds what was written for the later record, whatever order
\* the model calls and the confirmations complete in.
C14_LaterRecordWins ==
    \A i, j \in Records :
        /\ run \in {"fulfilled", "exited"} /\ results # Null
        /\ i < j /\ filesToFix[i] = filesToFix[j]
        /\ outcome[i] = "true" /\ outcome[j] = "true"
        /\ \A m \in Records : m > j => filesToFix[m] # filesToFix[j]
        => disk[filesToFix[j]] = Some(writes[j][Len(writes[j])])

\* C15: processFileFix is started exactly once for each record the parser
\* returned, and when no record fails the result list has one entry per
\* record, the i-th being the outcome of the i-th record, whatever order the
\* calls completed in.
C15_OneCallPerRecordResultsInOrder ==
    /\ \A i \in Records : calls[i] = IF pc[i] = "new" THEN 0 ELSE 1
    /\ results # Null =>
          /\ \A i \in Records : calls[i] = 1
          /\ Len(results[1]) = Len(filesToFix)
          /\ \A i \in Records : results[1][i] = outcome[i]
    /\ run = "fulfilled" => results # Null

\* the second record completed before the first, with a different outcome
C15_Witness ==
    /\ results # Null
    /\ Len(completed) > 1 /\ completed[1] > completed[2]
    /\ outcome[1] # outcome[2]

\* C16: a fix run that returned exits with code 0 when at least one file was
\* modified, and with a non-zero code when none was (no fix records, or every
\* result applied=false).
C16_NonZeroWhenNothingModified ==
    exitCode # Null /\ results # Null =>
        (exitCode = Some(0) <=> \E i \in Records : outcome[i] = "true")

\* C17: a fix run ends as successful (exit code 0) exactly when no attempted
\* file failed, every file being applied or skipped: a run in which every
\* change was declined ends with code 0, and a run in which a read, a write or
\* a model call failed ends with a non-zero code.
C17_SuccessIffNoFailure ==
    exitCode # Null => (exitCode = Some(0) <=> \A i \in Records : outcome[i] # "threw")

\* a run in which the user declined every change, ended with code 0
C17_Witness ==
    /\ exitCode = Some(0)
    /\ Len(filesToFix) > 1
    /\ \A i \in Records : answer[i] = "false" /\ outcome[i] = "false"

----------------------------------------------------------------------------
(* extractFixedCode as a function of its argument (fix.ts:25-32) *)

\* the characters a response is made of: the two sentinels, a newline, a
\* space and a letter
TextTokens == {UPDATED_CODE_START_TAG, UPDATED_CODE_END_TAG, NL, SP, "x"}

InitExtract ==
    /\ mode = "extract"
    /\ ParseInit
    /\ FixIdle
    /\ aiText \in SeqsUpTo(TextTokens, MaxText)
    /\ extracted = FALSE
    /\ fixedCode = Null
    /\ CliIdle
    /\ StreamIdle
    /\ MoreIdle

\* fix.ts:25-32: one call
Extract ==
    /\ mode = "extract" /\ ~extracted
    /\ extracted' = TRUE
    /\ fixedCode' = extractFixedCode(aiText)
    /\ UNCHANGED <<mode, parseVars, fixVars, aiText, cliVars, streamVars, moreVars>>

NextExtract == Extract

SpecExtract == InitExtract /\ [][NextExtract]_vars

\* C12: for every way of reading the text as prefix + opening sentinel + T +
\* closing sentinel + suffix, with T holding neither sentinel and prefix and
\* suffix arbitrary, extractFixedCode returns T trimmed.
C12_ExtractsTrimmedBody ==
    extracted =>
        \A a, b \in 1..Len(aiText) :
            /\ a < b
            /\ aiText[a] = UPDATED_CODE_START_TAG
            /\ aiText[b] = UPDATED_CODE_END_TAG
            /\ \A k \in (a + 1)..(b - 1) :
                  aiText[k] \notin {UPDATED_CODE_START_TAG, UPDATED_CODE_END_TAG}
            => fixedCode = Some(trim(SubSeq(aiText, a + 1, b - 1)))

----------------------------------------------------------------------------
(* cli.action (part_007:17-91, commands.ts:12-98, 167-196, fix.ts:233-284,
   api.ts:25-65).  applyAiFixes is taken by its outcome here; SpecFix has
   its steps. *)

\* what the model may answer
Analyses == {<<"x">>, <<"y">>}

\* the cache file when the process starts
CacheFiles ==
    {[kind |-> "absent", analysis |-> <<>>], [kind |-> "invalid", analysis |-> <<>>]}
        \cup {[kind |-> "valid", analysis |-> a] : a \in Analyses}

\* an entry point that applies fixes whether asked to or not
branchAlwaysFix(fixFlag) == "fix"

\* part_007:72, 86: if (config.fix) {...} else {...}
branch(fixFlag) == IF fixFlag THEN "fix" ELSE "print"

Tasks == {"serialize", "test", "gitDiff"}

\* commands.ts:187-191: the order of the promises handed to Promise.all
LoadOrder == <<"serialize", "test", "gitDiff">>

\* what a subprocess may print
Outputs == {<<"a">>, <<"b">>}

\* the exit code of a subprocess, as the template of commands.ts:57 prints it
ExitCodes == {"0", "1", "2"}

\* a failure message that leaves the captured output out
failedMessageWithoutOutput(code, captured) == <<"Command failed with code ", code>>

\* commands.ts:57, 84: what runTestCommand resolves with when the command
\* fails: the message of the error executeCommand rejected with
failedMessage(code, captured) == <<"Command failed with code ", code, NL>> \o captured

\* a destructuring that takes the values in the order the fields are named
namedResultsTestFirst(values) ==
    [testOutput |-> values[1], repoStructure |-> values[2], gitDiff |-> values[3]]

\* commands.ts:191-195: .then(([repoStructure, testOutput, gitDiff]) => ({...}))
namedResults(values) ==
    [repoStructure |-> values[1], testOutput |-> values[2], gitDiff |-> values[3]]

InitCli ==
    /\ mode = "cli"
    /\ ParseInit
    /\ FixIdle
    /\ ExtractIdle
    /\ StreamIdle
    /\ MoreIdle
    /\ cliPc = "start"
    /\ testCommandAndArgs \in SeqsUpTo({"t"}, 1)
    /\ apiKeySet \in BOOLEAN
    /\ task = [t \in Tasks |-> "unstarted"]
    /\ taskOut = [t \in Tasks |-> <<>>]
    /\ spawned = <<>>
    /\ settled = <<>>
    /\ analyzeArgs = Null
    /\ requests = 0
    /\ cliExit = Null
    /\ configFix \in BOOLEAN
    /\ configCache \in BOOLEAN
    /\ cacheFile \in CacheFiles
    /\ analysis = Null
    /\ printed = <<>>
    /\ applyCalls = 0
    /\ sourceModified = FALSE
    /\ testExit = Null

\* process.exit(1), or the end of the process on the unhandled rejection of the action
exitWith(code) ==
    /\ cliPc' = "exited"
    /\ cliExit' = Some(code)

\* part_007:18-46, commands.ts:12-25: loadConfig, where an empty test command
\* ends the process; then the cache file is read when it exists and
\* config.cache is set, and fresh data is generated only when config.cache is
\* not set
LoadConfig ==
    /\ mode = "cli" /\ cliPc = "start"
    /\ IF testCommandAndArgs = <<>>
       THEN exitWith(1) /\ UNCHANGED analysis
       ELSE /\ analysis' = IF configCache /\ cacheFile.kind = "valid"
                           THEN Some(cacheFile.analysis) ELSE analysis
            /\ cliPc' = IF configCache THEN "finishing" ELSE "callSerialize"
            /\ UNCHANGED cliExit
    /\ UNCHANGED <<mode, parseVars, fixVars, extractVars, streamVars, moreVars, testCommandAndArgs, apiKeySet, task,
                   taskOut, spawned, settled, analyzeArgs, requests, configFix, configCache,
                   cacheFile, printed, applyCalls, sourceModified, testExit>>

\* commands.ts:188, 88-93, 37-42: serializeRepository runs to its await, the
\* subprocess spawned
CallSerialize ==
    /\ mode = "cli" /\ cliPc = "callSerialize"
    /\ task' = [task EXCEPT !["serialize"] = "running"]
    /\ spawned' = Append(spawned, "serialize")
    /\ cliPc' = "callTest"
    /\ UNCHANGED <<mode, parseVars, fixVars, extractVars, streamVars, moreVars, testCommandAndArgs, apiKeySet,
                   taskOut, settled, analyzeArgs, requests, cliExit, cliRest>>

\* commands.ts:189, 62-80, 37-42: runTestCommand runs to its await, the
\* subprocess spawned
CallTest ==
    /\ mode = "cli" /\ cliPc = "callTest"
    /\ task' = [task EXCEPT !["test"] = "running"]
    /\ spawned' = Append(spawned, "test")
    /\ cliPc' = "callGitDiff"
    /\ UNCHANGED <<mode, parseVars, fixVars, extractVars, streamVars, moreVars, testCommandAndArgs, apiKeySet,
                   taskOut, settled, analyzeArgs, requests, cliExit, cliRest>>

\* commands.ts:190, 167-184: getGitDiff runs git with execSync, to its end: the
\* diff, or "" when git fails; then loadRepoData is awaited (part_007:47)
CallGitDiff(ok, out) ==
    /\ mode = "cli" /\ cliPc = "callGitDiff"
    /\ task' = [task EXCEPT !["gitDiff"] = "done"]
    /\ taskOut' = [taskOut EXCEPT !["gitDiff"] = IF ok THEN out ELSE <<>>]
    /\ spawned' = Append(spawned, "gitDiff")
    /\ settled' = Append(settled, "gitDiff")
    /\ cliPc' = "loading"
    /\ UNCHANGED <<mode, parseVars, fixVars, extractVars, streamVars, moreVars, testCommandAndArgs, apiKeySet,
                   analyzeArgs, requests, cliExit, cliRest>>

\* commands.ts:54-58, 83-85, 93, 187-195, part_007:47-48: a subprocess closes.
\* The test command always fulfils, with its output or with the error message;
\* a failed serialization rejects loadRepoData and with it the action; when
\* all three are fulfilled the values are named and analyzeTestFailure invoked
Close(t, code, out) ==
    /\ mode = "cli" /\ cliPc = "loading"
    /\ t \in {"serialize", "test"} /\ task[t] = "running"
    /\ settled' = Append(settled, t)
    /\ testExit' = IF t = "test" THEN Some([code |-> code, output |-> out]) ELSE testExit
    /\ IF t = "serialize" /\ code # "0"
       THEN /\ task' = [task EXCEPT ![t] = "failed"]
            /\ exitWith(1)
            /\ UNCHANGED <<taskOut, analyzeArgs>>
       ELSE /\ task' = [task EXCEPT ![t] = "done"]
            /\ taskOut' = [taskOut EXCEPT ![t] = IF code = "0" THEN out
                                                 ELSE failedMessage(code, out)]
            /\ IF \A u \in Tasks : task'[u] = "done"
               THEN /\ analyzeArgs' = Some(namedResults([k \in 1..3 |-> taskOut'[LoadOrder[k]]]))
                    /\ cliPc' = "analyzing"
               ELSE UNCHANGED <<analyzeArgs, cliPc>>
            /\ UNCHANGED cliExit
    /\ UNCHANGED <<mode, parseVars, fixVars, extractVars, streamVars, moreVars, testCommandAndArgs, apiKeySet,
                   spawned, requests, configFix, configCache, cacheFile, analysis, printed,
                   applyCalls, sourceModified>>

\* fix.ts:239-283, api.ts:36-65: analyzeTestFailure reads the test files (which
\* may throw) and calls streamAIResponse, which throws without an API key and
\* otherwise sends the request
CallModel(ok) ==
    /\ mode = "cli" /\ cliPc = "analyzing"
    /\ IF ~ok \/ ~apiKeySet
       THEN exitWith(1) /\ UNCHANGED requests
       ELSE /\ requests' = requests + 1
            /\ cliPc' = "requested"
            /\ UNCHANGED cliExit
    /\ UNCHANGED <<mode, parseVars, fixVars, extractVars, streamVars, moreVars, testCommandAndArgs, apiKeySet, task,
                   taskOut, spawned, settled, analyzeArgs, cliRest>>

\* part_007:48-68, api.ts:68-128: the model call settles.  Its text becomes
\* `analysis` and is written to the cache file; a rejection (transport error,
\* timeout) rejects the action
ModelSettles(ok, a) ==
    /\ mode = "cli" /\ cliPc = "requested"
    /\ IF ok
       THEN /\ analysis' = Some(a)
            /\ cacheFile' = [kind |-> "valid", analysis |-> a]
            /\ cliPc' = "finishing"
            /\ UNCHANGED cliExit
       ELSE exitWith(1) /\ UNCHANGED <<analysis, cacheFile>>
    /\ UNCHANGED <<mode, parseVars, fixVars, extractVars, streamVars, moreVars, testCommandAndArgs, apiKeySet, task,
                   taskOut, spawned, settled, analyzeArgs, requests, configFix, configCache,
                   printed, applyCalls, sourceModified, testExit>>

\* part_007:71-90: with config.fix applyAiFixes is invoked and awaited;
\* otherwise `analysis` is written to stdout and the process exits with 0.
\* process.stdout.write throws a TypeError for undefined, which rejects the
\* action
Finish ==
    /\ mode = "cli" /\ cliPc = "finishing"
    /\ IF branch(configFix) = "fix"
       THEN /\ applyCalls' = applyCalls + 1
            /\ cliPc' = "fixing"
            /\ UNCHANGED <<printed, cliExit>>
       ELSE /\ IF analysis = Null
               THEN exitWith(1) /\ UNCHANGED printed
               ELSE exitWith(0) /\ printed' = Append(printed, analysis[1])
            /\ UNCHANGED applyCalls
    /\ UNCHANGED <<mode, parseVars, fixVars, extractVars, streamVars, moreVars, testCommandAndArgs, apiKeySet, task,
                   taskOut, spawned, settled, analyzeArgs, requests, configFix, configCache,
                   cacheFile, analysis, sourceModified, testExit>>

\* part_007:80-85, fix.ts:38-80: applyAiFixes settles, having written source
\* files or not; process.exit(success ? 0 : 1), and a rejection ends the
\* process with 1 as well
FixDone(success, modified) ==
    /\ mode = "cli" /\ cliPc = "fixing"
    /\ sourceModified' = modified
    /\ exitWith(IF success THEN 0 ELSE 1)
    /\ UNCHANGED <<mode, parseVars, fixVars, extractVars, streamVars, moreVars, testCommandAndArgs, apiKeySet, task,
                   taskOut, spawned, settled, analyzeArgs, requests, configFix, configCache,
                   cacheFile, analysis, printed, applyCalls, testExit>>

NextCli ==
    \/ LoadConfig
    \/ CallSerialize
    \/ CallTest
    \/ \E ok \in BOOLEAN, out \in Outputs : CallGitDiff(ok, out)
    \/ \E t \in Tasks, code \in ExitCodes, out \in Outputs : Close(t, code, out)
    \/ \E ok \in BOOLEAN : CallModel(ok)
    \/ \E ok \in BOOLEAN, a \in Analyses : ModelSettles(ok, a)
    \/ Finish
    \/ \E success, modified \in BOOLEAN : FixDone(success, modified)

SpecCli == InitCli /\ [][NextCli]_vars

\* C18: with the test command or the API credential missing, the process ends
\* with a non-zero code before any subprocess is spawned and before any
\* network request is made.
C18_FatalBeforeAnyWork ==
    testCommandAndArgs = <<>> \/ ~apiKeySet =>
        /\ spawned = <<>>
        /\ requests = 0
        /\ cliExit # Null => cliExit # Some(0)

\* C19: the three tasks of loadRepoData are all started before any of them is
\* waited for, analyzeTestFailure is invoked only once all three are
\* fulfilled, and it gets the output of each under its own name, whatever
\* order they completed in.
C19_FanOutFanIn ==
    /\ cliPc = "loading" => \A t \in Tasks : task[t] # "unstarted"
    /\ (\E t \in Tasks : task[t] \in {"done", "failed"}) =>
          \A t \in Tasks : task[t] # "unstarted"
    /\ analyzeArgs # Null =>
          /\ \A t \in Tasks : task[t] = "done"
          /\ analyzeArgs[1].testOutput = taskOut["test"]
          /\ analyzeArgs[1].repoStructure = taskOut["serialize"]
          /\ analyzeArgs[1].gitDiff = taskOut["gitDiff"]

\* the test command closed before the serialization, with different outputs
C19_Witness ==
    /\ analyzeArgs # Null
    /\ settled = <<"gitDiff", "test", "serialize">>
    /\ taskOut["test"] # taskOut["serialize"]
    /\ taskOut["gitDiff"] # taskOut["serialize"]

\* C30: without config.fix applyAiFixes is never invoked and no source file is
\* written; once there is an analysis it is what is written to stdout,
\* unchanged and once, and the process exits with code 0.
C30_NoFixPrintsAnalysis ==
    ~configFix =>
        /\ applyCalls = 0
        /\ ~sourceModified
        /\ printed # <<>> => cliPc = "exited"
        /\ cliPc = "exited" /\ analysis # Null =>
              /\ printed = <<analysis[1]>>
              /\ cliExit = Some(0)

\* C40: a test command that exits with a non-zero code does not abort the
\* run: runTestCommand fulfils with the failure message, which carries the
\* exit code and the captured output; once the other two tasks are fulfilled
\* loadRepoData completes, and that message is the test output handed to the
\* analysis.
C40_FailedTestIsTestOutput ==
    testExit # Null /\ testExit[1].code # "0" =>
        /\ task["test"] = "done"
        /\ taskOut["test"] =
              <<"Command failed with code ", testExit[1].code, NL>> \o testExit[1].output
        /\ (\A t \in Tasks : task[t] = "done") => analyzeArgs # Null
        /\ analyzeArgs # Null => analyzeArgs[1].testOutput = taskOut["test"]
        /\ cliPc = "exited" /\ cliExit = Some(1) =>
              task["serialize"] = "failed" \/ analyzeArgs # Null

\* the test command exited with code 2 and the analysis was requested
C40_Witness ==
    /\ testExit # Null /\ testExit[1].code = "2"
    /\ analyzeArgs # Null
    /\ analyzeArgs[1].testOutput = <<"Command failed with code ", "2", NL>> \o testExit[1].output
    /\ requests = 1

\* C38: with config.cache set and the cache file absent or unparsable, fresh
\* data and a fresh analysis are generated, so the analysis that the fix step
\* consumes or that is printed is always defined.
C38_AnalysisAlwaysDefined ==
    cliPc \in {"finishing", "fixing"} =>
        /\ analysis # Null
        /\ configCache /\ cacheFile.kind # "valid" => requests >= 1

\* a run without the cache and without config.fix printed its fresh analysis
C30_Witness ==
    /\ ~configFix /\ ~configCache
    /\ requests = 1
    /\ cliPc = "exited"
    /\ analysis # Null /\ printed = <<analysis[1]>>
    /\ cacheFile = [kind |-> "valid", analysis |-> analysis[1]]
    /\ cliExit = Some(0)

----------------------------------------------------------------------------
(* One call of streamAIResponse (api.ts:25-129) *)

\* config.timeout, in milliseconds (commands.ts:23)
Timeouts == {1000, 2000}

\* delta.content and delta.reasoning_content of a chunk; message.content of a
\* response that is not streamed
ContentChunks == {<<>>, <<"c">>, <<"d">>}
ReasoningChunks == {<<>>, <<"r">>}

\* what settles the call: a returned text or a thrown error
returned(text) == [kind |-> "value", name |-> "", seconds |-> 0, text |-> text]
thrown(kind, name, seconds) == [kind |-> kind, name |-> name, seconds |-> seconds, text |-> <<>>]

\* an accumulator that puts the newest chunk first
accumulateInFront(full, chunk) == chunk \o full

\* api.ts:85-86: full += chunk
accumulate(full, chunk) == full \o chunk

\* a choice that returns both texts, one after the other
orElseBoth(a, b) == a \o b

\* a || b on strings
orElse(a, b) == IF a # <<>> THEN a ELSE b

\* what the pending await of the client may do once its signal is aborted:
\* reject with an error named AbortError, reject with an error of the
\* client's own that has another name, or (while iterating) end the stream
AbortEffects == {"AbortError", "Error", "end"}

\* api.ts:110-125: the catch clause
rethrow(error, ms) ==
    IF error.name = "AbortError" THEN thrown("timeout", "Error", ms \div 1000)
    ELSE error

InitStream ==
    /\ mode = "stream"
    /\ ParseInit
    /\ FixIdle
    /\ ExtractIdle
    /\ CliIdle
    /\ MoreIdle
    /\ sPc = "start"
    /\ keySet \in BOOLEAN
    /\ streamed \in BOOLEAN
    /\ hideReasoning \in BOOLEAN
    /\ timeoutMs \in Timeouts
    /\ timer = "unset"
    /\ aborted = FALSE
    /\ chunkCount = 0
    /\ fullContent = <<>>
    /\ fullReasoning = <<>>
    /\ reasoningLog = <<>>
    /\ arrived = <<>>
    /\ sResult = Null

\* the call returns or throws; api.ts:126-128 clears the timer on the way out
settleWith(r) ==
    /\ sPc' = "settled"
    /\ sResult' = Some(r)
    /\ timer' = IF timer = "armed" THEN "cleared" ELSE timer

\* api.ts:36-65: the key is tested, the timer armed and the request sent
StartRequest ==
    /\ mode = "stream" /\ sPc = "start"
    /\ IF ~keySet
       THEN settleWith(thrown("nokey", "Error", 0))
       ELSE /\ sPc' = "requesting"
            /\ timer' = "armed"
            /\ UNCHANGED sResult
    /\ UNCHANGED <<mode, parseVars, fixVars, extractVars, cliVars, moreVars, keySet, streamed,
                   hideReasoning, timeoutMs, aborted, chunkCount, fullContent, fullReasoning,
                   reasoningLog, arrived>>

\* api.ts:46: the timer fires, controller.abort()
TimerFires ==
    /\ mode = "stream" /\ timer = "armed"
    /\ timer' = "fired"
    /\ aborted' = TRUE
    /\ UNCHANGED <<mode, parseVars, fixVars, extractVars, cliVars, moreVars, sPc, keySet, streamed,
                   hideReasoning, timeoutMs, chunkCount, fullContent, fullReasoning,
                   reasoningLog, arrived,
                   sResult>>

\* api.ts:54-69, 96-108: the provider answers: the stream is open, or the
\* whole response is there and its content returned
Respond(content) ==
    /\ mode = "stream" /\ sPc = "requesting" /\ ~aborted
    /\ IF streamed
       THEN /\ content = <<>>
            /\ sPc' = "streaming"
            /\ UNCHANGED <<timer, sResult>>
       ELSE settleWith(returned(orElse(content, <<>>)))
    /\ UNCHANGED <<mode, parseVars, fixVars, extractVars, cliVars, moreVars, keySet, streamed,
                   hideReasoning, timeoutMs, aborted, chunkCount, fullContent, fullReasoning,
                   reasoningLog, arrived>>

\* api.ts:71-92: one chunk goes through the loop body
Chunk(contentChunk, reasoningChunk) ==
    /\ mode = "stream" /\ sPc = "streaming" /\ ~aborted
    /\ chunkCount < MaxChunks
    /\ chunkCount' = chunkCount + 1
    /\ arrived' = Append(arrived, [content |-> contentChunk, reasoning |-> reasoningChunk])
    /\ fullContent' = accumulate(fullContent, contentChunk)
    /\ fullReasoning' = accumulate(fullReasoning, reasoningChunk)
    /\ reasoningLog' = IF hideReasoning THEN reasoningLog
                       ELSE Append(reasoningLog, orElse(reasoningChunk, contentChunk))
    /\ UNCHANGED <<mode, parseVars, fixVars, extractVars, cliVars, moreVars, sPc, keySet, streamed,
                   hideReasoning, timeoutMs, timer, aborted, sResult>>

\* api.ts:71, 94: the stream ends
EndOfStream ==
    /\ mode = "stream" /\ sPc = "streaming" /\ ~aborted
    /\ settleWith(returned(orElse(fullContent, fullReasoning)))
    /\ UNCHANGED <<mode, parseVars, fixVars, extractVars, cliVars, moreVars, keySet, streamed,
                   hideReasoning, timeoutMs, aborted, chunkCount, fullContent, fullReasoning,
                   reasoningLog, arrived>>

\* api.ts:110-125: the request or the stream fails on the transport
TransportError ==
    /\ mode = "stream" /\ sPc \in {"requesting", "streaming"} /\ ~aborted
    /\ settleWith(rethrow(thrown("transport", "Error", 0), timeoutMs))
    /\ UNCHANGED <<mode, parseVars, fixVars, extractVars, cliVars, moreVars, keySet, streamed,
                   hideReasoning, timeoutMs, aborted, chunkCount, fullContent, fullReasoning,
                   reasoningLog, arrived>>

\* api.ts:63, 71, 104, 110-125: the aborted signal reaches the pending await
AbortObserved(effect) ==
    /\ mode = "stream" /\ sPc \in {"requesting", "streaming"} /\ aborted
    /\ IF effect = "end"
       THEN /\ sPc = "streaming"
            /\ settleWith(returned(orElse(fullContent, fullReasoning)))
       ELSE settleWith(rethrow(thrown("aborted", effect, 0), timeoutMs))
    /\ UNCHANGED <<mode, parseVars, fixVars, extractVars, cliVars, moreVars, keySet, streamed,
                   hideReasoning, timeoutMs, aborted, chunkCount, fullContent, fullReasoning,
                   reasoningLog, arrived>>

NextStream ==
    \/ StartRequest
    \/ TimerFires
    \/ \E c \in ContentChunks : Respond(c)
    \/ \E c \in ContentChunks, r \in ReasoningChunks : Chunk(c, r)
    \/ EndOfStream
    \/ TransportError
    \/ \E e \in AbortEffects : AbortObserved(e)

SpecStream == InitStream /\ [][NextStream]_vars

\* C20: a call whose timer fired before the provider had answered rejects
\* with the timed-out error, which names the configured timeout in seconds,
\* and a call that failed on the transport before the timer rejects with the
\* transport error itself, never with the timed-out error.
C20_TimeoutRejectsAsTimedOut ==
    sResult # Null =>
        /\ timer = "fired" =>
              sResult[1].kind = "timeout" /\ sResult[1].seconds * 1000 = timeoutMs
        /\ sResult[1].kind = "timeout" => timer = "fired"

\* the texts of a list, one after the other
RECURSIVE concatenation(_)
concatenation(texts) ==
    IF texts = <<>> THEN <<>> ELSE Head(texts) \o concatenation(Tail(texts))

\* C21 as stated: after k chunks the accumulators are the concatenations of
\* the content and of the reasoning deltas of the k chunks in arrival order,
\* and the display has received the display text of each of the k chunks, in
\* arrival order.
C21_AccumulatedAndDisplayed ==
    /\ Len(arrived) = chunkCount
    /\ fullContent = concatenation([k \in 1..Len(arrived) |-> arrived[k].content])
    /\ fullReasoning = concatenation([k \in 1..Len(arrived) |-> arrived[k].reasoning])
    /\ reasoningLog =
          [k \in 1..Len(arrived) |->
              IF arrived[k].reasoning # <<>> THEN arrived[k].reasoning ELSE arrived[k].content]

\* C21 amended: the accumulators are as stated; the display receives the
\* display text of each chunk (its reasoning delta, or its content delta when
\* it has no reasoning delta), in arrival order, when config.hideReasoning is
\* off, and nothing when it is on.
C21_AccumulatedAndDisplayedUnlessHidden ==
    /\ Len(arrived) = chunkCount
    /\ fullContent = concatenation([k \in 1..Len(arrived) |-> arrived[k].content])
    /\ fullReasoning = concatenation([k \in 1..Len(arrived) |-> arrived[k].reasoning])
    /\ reasoningLog =
          IF hideReasoning THEN <<>>
          ELSE [k \in 1..Len(arrived) |->
                  IF arrived[k].reasoning # <<>> THEN arrived[k].reasoning
                  ELSE arrived[k].content]

\* C37: the streamed call returns the accumulated content when it is not
\* empty, and the accumulated reasoning only when no content was received;
\* the returned text is never a mix of the two.
C37_ContentElseReasoning ==
    streamed /\ sResult # Null /\ sResult[1].kind = "value" =>
        LET content == concatenation([k \in 1..Len(arrived) |-> arrived[k].content])
            reasoning == concatenation([k \in 1..Len(arrived) |-> arrived[k].reasoning])
        IN sResult[1].text = IF content # <<>> THEN content ELSE reasoning

\* a stream that carried reasoning and content returned the content alone
C37_Witness ==
    /\ streamed /\ sResult # Null /\ sResult[1].kind = "value"
    /\ \E k \in 1..Len(arrived) : arrived[k].reasoning # <<>>
    /\ Len(arrived) = 2
    /\ sResult[1].text = <<"c", "d">>

\* two chunks with different content deltas, the second with a reasoning delta
C21_Witness ==
    /\ ~hideReasoning
    /\ arrived = << [content |-> <<"c">>, reasoning |-> <<>>],
                    [content |-> <<"d">>, reasoning |-> <<"r">>] >>
    /\ fullContent = <<"c", "d">>
    /\ reasoningLog = << <<"c">>, <<"r">> >>

----------------------------------------------------------------------------
(* One call of executeCommand (commands.ts:27-60) *)

\* the two piped streams of the subprocess (commands.ts:40, 51-52)
Streams == {"stdout", "stderr"}

\* data.toString() of a data event (commands.ts:46)
DataTexts == {<<"a">>, <<"b">>}

\* the `code` of the close event: an exit code, or null when a signal ended
\* the subprocess
CloseCodes == {Some(0), Some(1), Some(2), Null}

\* a close handler that rejects only for exit code 1
closedRejectingOnOne(code, text) ==
    [kind |-> IF code = Some(1) THEN "rejected" ELSE "resolved", code |-> code, text |-> text]

\* commands.ts:54-58: resolve(output) for code 0, otherwise reject with
\* `Command failed with code ${code}\n${output}`
closed(code, text) ==
    [kind |-> IF code = Some(0) THEN "resolved" ELSE "rejected", code |-> code, text |-> text]

InitExec ==
    /\ mode = "exec"
    /\ ParseInit /\ FixIdle /\ ExtractIdle /\ CliIdle /\ StreamIdle /\ LogIdle /\ UiIdle
    /\ eStatus = "pending"
    /\ hasOnData \in BOOLEAN
    /\ eArrived = <<>>
    /\ output = <<>>
    /\ onDataCalls = <<>>
    /\ eResult = Null

\* commands.ts:45-52: handleData for a data event of either stream
Data(stream, text) ==
    /\ mode = "exec" /\ eStatus = "pending"
    /\ Len(eArrived) < MaxData
    /\ eArrived' = Append(eArrived, [stream |-> stream, text |-> text])
    /\ output' = output \o text
    /\ onDataCalls' = IF hasOnData THEN Append(onDataCalls, text) ELSE onDataCalls
    /\ UNCHANGED <<mode, baseVars, logVars, uiVars, eStatus, hasOnData, eResult>>

\* commands.ts:54-58: the close event, after both streams have ended
ProcClose(code) ==
    /\ mode = "exec" /\ eStatus = "pending"
    /\ eResult' = Some(closed(code, output))
    /\ eStatus' = eResult'[1].kind
    /\ UNCHANGED <<mode, baseVars, logVars, uiVars, hasOnData, eArrived, output, onDataCalls>>

NextExec ==
    \/ \E st \in Streams, text \in DataTexts : Data(st, text)
    \/ \E code \in CloseCodes : ProcClose(code)

SpecExec == InitExec /\ [][NextExec]_vars

\* C22: executeCommand resolves exactly when the subprocess closes with code
\* 0, with the texts of all data events of both streams in arrival order; for
\* any other code it rejects with an error that carries the code and the
\* captured output; and onData, when supplied, has been called once per data
\* event, in arrival order, with the text of that event.
C22_ResolvesIffCodeZero ==
    LET texts == [k \in 1..Len(eArrived) |-> eArrived[k].text]
    IN /\ eStatus = "pending" <=> eResult = Null
       /\ eResult # Null =>
             /\ eStatus = "resolved" <=> eResult[1].code = Some(0)
             /\ eStatus = "rejected" <=> eResult[1].code # Some(0)
             /\ eResult[1].kind = eStatus
             /\ eResult[1].text = concatenation(texts)
       /\ onDataCalls = IF hasOnData THEN texts ELSE <<>>

\* a command that printed on both streams and exited with code 2
C22_Witness ==
    /\ hasOnData
    /\ eStatus = "rejected" /\ eResult[1].code = Some(2)
    /\ eArrived = << [stream |-> "stdout", text |-> <<"a">>],
                     [stream |-> "stderr", text |-> <<"b">>] >>

----------------------------------------------------------------------------
(* The LogStore (commands.ts:198-272) with its subscribers and its timer *)

\* commands.ts:222: the debounce interval, in milliseconds
DEBOUNCE_MS == 16

\* the subscribers there may be
Listeners == {1, 2}

\* the texts appended
LogTexts == {<<"a">>, <<"b">>}
ReasoningTexts == {<<"r">>}

\* how far the clock moves in one step, in milliseconds
TickSteps == {8}

\* a schedule that leaves the earlier timer pending
keepTimers(ts, handle) == ts

\* commands.ts:218: if (this.debounceTimeout) clearTimeout(this.debounceTimeout)
clearTimeout(ts, handle) == {t \in ts : handle = Null \/ t.id # handle[1]}

\* a notification that reaches the first listener only
notifyFirstOnly(ls) == IF ls = <<>> THEN {} ELSE {ls[1]}

\* commands.ts:213-215: listeners.forEach: who is invoked
notifyTargets(ls) == {ls[k] : k \in 1..Len(ls)}

\* an unsubscribe that removes nothing
unsubscribedNothing(ls, l) == ls

\* commands.ts:208-210: listeners.filter((l) => l !== listener)
unsubscribed(ls, l) == SelectSeq(ls, LAMBDA x : x # l)

\* an append that keeps only the newest text
replaceText(buf, text) == text

\* commands.ts:226, 231: this.outputLog += text
appendText(buf, text) == buf \o text

\* commands.ts:214 with the listener of ui-component.tsx:86-89, which reads
\* getOutput() and getReasoning(): the listeners after one notification that
\* finds the buffers `out` and `reas`
notify(ls, cause, out, reas) ==
    [l \in Listeners |->
        IF l \in notifyTargets(ls)
        THEN [lst[l] EXCEPT
                 !.calls = IF cause = "timer" THEN @ + 1 ELSE @,
                 !.afterUnsub = @ \/ lst[l].state = "unsubscribed",
                 !.seenOut = out,
                 !.seenReas = reas,
                 !.owed = IF cause = "timer"
                             /\ out = concatenation(appendedOutput)
                             /\ reas = concatenation(appendedReasoning)
                          THEN "none"
                          ELSE IF @ = "owed" /\ cause = "clear" THEN "dropped" ELSE @]
        ELSE [lst[l] EXCEPT !.missed = @ \/ lst[l].state = "subscribed",
                            !.owed = IF @ = "owed" /\ cause = "clear" THEN "dropped" ELSE @]]

InitLog ==
    /\ mode = "log"
    /\ ParseInit /\ FixIdle /\ ExtractIdle /\ CliIdle /\ StreamIdle /\ ExecIdle /\ UiIdle
    /\ StoreInit
    /\ appendedOutput = <<>>
    /\ appendedReasoning = <<>>
    /\ storeCalls = 0
    /\ nAppends = 0
    /\ sinceAppend = DEBOUNCE_MS
    /\ shortGaps = TRUE
    /\ everCleared = FALSE
    /\ earlyNotify = FALSE
    /\ lst = [l \in Listeners |->
                [state |-> "new", calls |-> 0, joinedAt |-> 0, owed |-> "none",
                 afterUnsub |-> FALSE, missed |-> FALSE, seenOut |-> <<>>, seenReas |-> <<>>]]

\* commands.ts:206-207: subscribe(listener)
Subscribe(l) ==
    /\ mode = "log" /\ lst[l].state = "new"
    /\ listeners' = Append(listeners, l)
    /\ lst' = [lst EXCEPT ![l].state = "subscribed", ![l].joinedAt = nAppends]
    /\ UNCHANGED <<mode, baseVars, execVars, uiVars, lsOutputLog, lsReasoningLog, debounceTimeout,
                   timers, nextTimer, appendedOutput, appendedReasoning, storeCalls, nAppends,
                   sinceAppend, shortGaps, everCleared, earlyNotify>>

\* commands.ts:208-210: the function subscribe returned is called
Unsubscribe(l) ==
    /\ mode = "log" /\ lst[l].state = "subscribed"
    /\ listeners' = unsubscribed(listeners, l)
    /\ lst' = [lst EXCEPT ![l].state = "unsubscribed"]
    /\ UNCHANGED <<mode, baseVars, execVars, uiVars, lsOutputLog, lsReasoningLog, debounceTimeout,
                   timers, nextTimer, appendedOutput, appendedReasoning, storeCalls, nAppends,
                   sinceAppend, shortGaps, everCleared, earlyNotify>>

\* commands.ts:217-223: scheduleNotify, and what an append call means for the
\* listeners subscribed at the time
scheduleNotify ==
    /\ timers' = clearTimeout(timers, debounceTimeout) \cup {[id |-> nextTimer, elapsed |-> 0]}
    /\ debounceTimeout' = Some(nextTimer)
    /\ nextTimer' = nextTimer + 1
    /\ storeCalls' = storeCalls + 1
    /\ nAppends' = nAppends + 1
    /\ shortGaps' = (shortGaps /\ (nAppends = 0 \/ sinceAppend < DEBOUNCE_MS))
    /\ sinceAppend' = 0
    /\ lst' = [l \in Listeners |->
                 IF lst[l].state = "subscribed" THEN [lst[l] EXCEPT !.owed = "owed"] ELSE lst[l]]

\* commands.ts:225-228: appendOutput(text)
appendOutput(text) ==
    /\ lsOutputLog' = appendText(lsOutputLog, text)
    /\ appendedOutput' = Append(appendedOutput, text)
    /\ scheduleNotify
    /\ UNCHANGED <<lsReasoningLog, listeners, appendedReasoning, everCleared, earlyNotify>>

\* commands.ts:230-233: appendReasoning(text)
appendReasoning(text) ==
    /\ lsReasoningLog' = appendText(lsReasoningLog, text)
    /\ appendedReasoning' = Append(appendedReasoning, text)
    /\ scheduleNotify
    /\ UNCHANGED <<lsOutputLog, listeners, appendedOutput, everCleared, earlyNotify>>

\* commands.ts:261-269: clear()
clear ==
    /\ storeCalls' = storeCalls + 1
    /\ lsOutputLog' = <<>>
    /\ lsReasoningLog' = <<>>
    /\ timers' = IF debounceTimeout # Null THEN clearTimeout(timers, debounceTimeout) ELSE timers
    /\ debounceTimeout' = Null
    /\ lst' = notify(listeners, "clear", <<>>, <<>>)
    /\ appendedOutput' = <<>>
    /\ appendedReasoning' = <<>>
    /\ everCleared' = TRUE
    /\ UNCHANGED <<listeners, nextTimer, nAppends, sinceAppend, shortGaps, earlyNotify>>

\* a call of appendOutput on the store
AppendOutput(text) ==
    /\ mode = "log" /\ storeCalls < MaxStoreCalls
    /\ appendOutput(text)
    /\ UNCHANGED <<mode, baseVars, execVars, uiVars>>

\* a call of appendReasoning on the store
AppendReasoning(text) ==
    /\ mode = "log" /\ storeCalls < MaxStoreCalls
    /\ appendReasoning(text)
    /\ UNCHANGED <<mode, baseVars, execVars, uiVars>>

\* a call of clear on the store
Clear ==
    /\ mode = "log" /\ storeCalls < MaxStoreCalls
    /\ clear
    /\ UNCHANGED <<mode, baseVars, execVars, uiVars>>

\* time passes
Tick(d) ==
    /\ mode \in {"log", "ui"} /\ uiExit = Null
    /\ sinceAppend < DEBOUNCE_MS \/ \E t \in timers : t.elapsed < DEBOUNCE_MS
    /\ timers' = {[t EXCEPT !.elapsed = Min({@ + d, DEBOUNCE_MS})] : t \in timers}
    /\ sinceAppend' = Min({sinceAppend + d, DEBOUNCE_MS})
    /\ UNCHANGED <<mode, baseVars, execVars, uiVars, lsOutputLog, lsReasoningLog, listeners,
                   debounceTimeout, nextTimer, appendedOutput, appendedReasoning, storeCalls,
                   nAppends, shortGaps, everCleared, earlyNotify, lst>>

\* commands.ts:219-222: the callback of a timer whose interval has passed
Fire(t) ==
    /\ mode \in {"log", "ui"} /\ uiExit = Null
    /\ t \in timers /\ t.elapsed >= DEBOUNCE_MS
    /\ timers' = timers \ {t}
    /\ lst' = notify(listeners, "timer", lsOutputLog, lsReasoningLog)
    /\ debounceTimeout' = Null
    /\ earlyNotify' = (earlyNotify \/ sinceAppend < DEBOUNCE_MS)
    /\ UNCHANGED <<mode, baseVars, execVars, uiVars, lsOutputLog, lsReasoningLog, listeners, nextTimer,
                   appendedOutput, appendedReasoning, storeCalls, nAppends, sinceAppend,
                   shortGaps, everCleared>>

NextLog ==
    \/ \E l \in Listeners : Subscribe(l)
    \/ \E l \in Listeners : Unsubscribe(l)
    \/ \E text \in LogTexts : AppendOutput(text)
    \/ \E text \in ReasoningTexts : AppendReasoning(text)
    \/ Clear
    \/ \E d \in TickSteps : Tick(d)
    \/ \E t \in timers : Fire(t)

SpecLog == InitLog /\ [][NextLog]_vars

\* time passes, and the runtime runs the callback of a timer that is due
SpecLogFair ==
    /\ SpecLog
    /\ WF_vars(\E d \in TickSteps : Tick(d))
    /\ WF_vars(\E t \in timers : Fire(t))

\* C26: while every append has followed the previous one by less than the
\* debounce interval (and clear was not called), a subscriber has not been
\* notified before the interval has passed since the last append, is
\* notified once when it has, finding the buffers as the last append left
\* them; and there is never more than one pending timer.
C26_OneNotificationPerBurst ==
    /\ Cardinality(timers) <= 1
    /\ ~earlyNotify
    /\ shortGaps /\ ~everCleared /\ nAppends > 0 =>
          \A l \in Listeners :
              lst[l].state = "subscribed" =>
                  /\ lst[l].calls <= 1
                  /\ sinceAppend < DEBOUNCE_MS => lst[l].calls = 0
                  /\ timers = {} /\ lst[l].joinedAt < nAppends =>
                        /\ lst[l].calls = 1
                        /\ lst[l].seenOut = lsOutputLog
                        /\ lst[l].seenReas = lsReasoningLog

\* three appends in a burst, and the one notification after them
C26_Witness ==
    /\ shortGaps /\ ~everCleared /\ nAppends = 3 /\ timers = {}
    /\ lsReasoningLog # <<>> /\ lsOutputLog # <<>>
    /\ \A l \in Listeners :
          lst[l].state = "subscribed" /\ lst[l].joinedAt = 0 /\ lst[l].calls = 1

\* C27: each buffer is the concatenation, in order, of the texts appended to
\* it since the last clear: an append changes its own buffer only, a
\* notification changes neither, and after clear both are empty.
C27_BuffersNeverDropText ==
    /\ lsOutputLog = concatenation(appendedOutput)
    /\ lsReasoningLog = concatenation(appendedReasoning)

\* both buffers filled, the output buffer by two appends, a notification
\* having run in between
C27_Witness ==
    /\ lsOutputLog = <<"a", "b">> /\ lsReasoningLog = <<"r">>
    /\ \E l \in Listeners : lst[l].calls = 1 /\ lst[l].seenOut = <<"a">>

\* C28 as stated: after an append, every listener subscribed at the time that
\* stays subscribed is eventually notified and finds the appended text in
\* the buffers.
C28_EventuallyNotifiedWithText ==
    \A l \in Listeners :
        [](lst[l].owed = "owed" =>
              <>(lst[l].owed = "none" \/ lst[l].state = "unsubscribed"))

\* C28 amended: after an append, every listener subscribed at the time that
\* stays subscribed is eventually notified and finds the appended text in
\* the buffers, unless clear is called before the debounce interval has
\* passed, which notifies it with the text gone.
C28_EventuallyNotifiedUnlessCleared ==
    \A l \in Listeners :
        [](lst[l].owed = "owed" =>
              <>(lst[l].owed \in {"none", "dropped"} \/ lst[l].state = "unsubscribed"))

\* both listeners notified by the timer, with the appended text in the buffer
C28_Witness ==
    \A l \in Listeners :
        /\ lst[l].state = "subscribed" /\ lst[l].owed = "none"
        /\ lst[l].calls = 1 /\ lst[l].seenOut = <<"a">>

\* C29: a listener is never invoked after its unsubscribe function was
\* called, also not by a notification pending at the time, and every
\* notification invokes every listener that is subscribed.
C29_NeverInvokedAfterUnsubscribe ==
    \A l \in Listeners : ~lst[l].afterUnsub /\ ~lst[l].missed

\* a listener that unsubscribed while a notification was pending, which
\* then reached the other listener only
C29_Witness ==
    \E l, m \in Listeners :
        /\ lst[l].state = "unsubscribed" /\ lst[l].owed = "owed" /\ lst[l].calls = 0
        /\ lst[m].state = "subscribed" /\ lst[m].calls = 1 /\ lst[m].joinedAt = 0
        /\ timers = {}

\* ---------------------------------------------------------------------------
\* The ui object (ui.tsx) over the LogStore, and the SIGINT handler of the
\* entry point (part_007:12-15).  ink's render is a call whose effect on the
\* screen is outside the repository: the model records that it was called
\* and that the function it returned was called.
\* ---------------------------------------------------------------------------

UiTexts == {<<"a">>, <<"b">>}
UiReasoningTexts == {<<"r">>}

\* a guard that renders whenever stdin is a TTY
shouldRenderOnAnyTTY(initialized, tty) == tty

\* ui.tsx:11: initialize returns early when initialized or when stdin is no TTY
shouldRender(initialized, tty) == ~(initialized \/ ~tty)

\* a guard under which destroy never unmounts
mountedNever(initialized, assigned) == FALSE

\* ui.tsx:50: the guard of destroy
mounted(initialized, assigned) == initialized /\ assigned

\* a routing that writes every text to stdout
sinkAlwaysStdout(initialized) == "stdout"

\* ui.tsx:34, 42: the sink of an append call
sink(initialized) == IF initialized THEN "store" ELSE "stdout"

\* the texts, in call order, of the append calls after the first `from` ones
\* that were of `kind` ("any": of either kind) and were routed to the store
\* (toStore) or to stdout (~toStore)
RECURSIVE textsOf(_, _, _, _)
textsOf(appends, from, kind, toStore) ==
    IF Len(appends) <= from THEN <<>>
    ELSE LET c == appends[Len(appends)]
             rest == textsOf(SubSeq(appends, 1, Len(appends) - 1), from, kind, toStore)
         IN IF (kind = "any" \/ c.kind = kind) /\ c.wasInit = toStore
            THEN Append(rest, c.text) ELSE rest

InitUi ==
    /\ mode = "ui"
    /\ ParseInit /\ FixIdle /\ ExtractIdle /\ CliIdle /\ StreamIdle /\ ExecIdle
    /\ StoreInit
    /\ appendedOutput = <<>>
    /\ appendedReasoning = <<>>
    /\ storeCalls = 0
    /\ nAppends = 0
    /\ sinceAppend = DEBOUNCE_MS
    /\ shortGaps = TRUE
    /\ everCleared = FALSE
    /\ earlyNotify = FALSE
    /\ lst = [l \in Listeners |->
                [state |-> "new", calls |-> 0, joinedAt |-> 0, owed |-> "none",
                 afterUnsub |-> FALSE, missed |-> FALSE, seenOut |-> <<>>, seenReas |-> <<>>]]
    /\ isInitialized = FALSE
    /\ unmount = FALSE
    /\ isTTY \in BOOLEAN
    /\ inkCalls = <<>>
    /\ stdoutWrites = <<>>
    /\ uiAppends = <<>>
    /\ lastDestroy = 0
    /\ uiCalls = 0
    /\ exitBy = ""
    /\ uiExit = Null

\* ui.tsx:49-55: destroy()
destroy ==
    IF mounted(isInitialized, unmount)
    THEN /\ inkCalls' = Append(inkCalls, "unmount")
         /\ clear
         /\ isInitialized' = FALSE
         /\ lastDestroy' = Len(uiAppends)
    ELSE UNCHANGED <<inkCalls, isInitialized, lastDestroy, logVars>>

\* ui.tsx:10-31: initialize()
Initialize ==
    /\ mode = "ui" /\ uiExit = Null /\ uiCalls < MaxUiCalls
    /\ uiCalls' = uiCalls + 1
    /\ IF shouldRender(isInitialized, isTTY)
       THEN /\ isInitialized' = TRUE
            /\ inkCalls' = Append(inkCalls, "render")
            /\ unmount' = TRUE
       ELSE UNCHANGED <<isInitialized, inkCalls, unmount>>
    /\ UNCHANGED <<mode, baseVars, execVars, logVars, isTTY, stdoutWrites, uiAppends,
                   lastDestroy, exitBy, uiExit>>

\* a call of ui.destroy()
Destroy ==
    /\ mode = "ui" /\ uiExit = Null /\ uiCalls < MaxUiCalls
    /\ uiCalls' = uiCalls + 1
    /\ destroy
    /\ UNCHANGED <<mode, baseVars, execVars, unmount, isTTY, stdoutWrites, uiAppends,
                   exitBy, uiExit>>

\* ui.tsx:33-39: appendOutputLog(text)
AppendOutputLog(text) ==
    /\ mode = "ui" /\ uiExit = Null /\ uiCalls < MaxUiCalls
    /\ uiCalls' = uiCalls + 1
    /\ uiAppends' = Append(uiAppends,
                           [kind |-> "output", text |-> text, wasInit |-> isInitialized])
    /\ IF sink(isInitialized) = "store"
       THEN appendOutput(text) /\ UNCHANGED stdoutWrites
       ELSE stdoutWrites' = Append(stdoutWrites, text) /\ UNCHANGED logVars
    /\ UNCHANGED <<mode, baseVars, execVars, isInitialized, unmount, isTTY, inkCalls,
                   lastDestroy, exitBy, uiExit>>

\* ui.tsx:41-47: appendReasoningLog(text)
AppendReasoningLog(text) ==
    /\ mode = "ui" /\ uiExit = Null /\ uiCalls < MaxUiCalls
    /\ uiCalls' = uiCalls + 1
    /\ uiAppends' = Append(uiAppends,
                           [kind |-> "reasoning", text |-> text, wasInit |-> isInitialized])
    /\ IF sink(isInitialized) = "store"
       THEN appendReasoning(text) /\ UNCHANGED stdoutWrites
       ELSE stdoutWrites' = Append(stdoutWrites, text) /\ UNCHANGED logVars
    /\ UNCHANGED <<mode, baseVars, execVars, isInitialized, unmount, isTTY, inkCalls,
                   lastDestroy, exitBy, uiExit>>

\* part_007:12-15 (and ui.tsx:27-30): SIGINT runs ui.destroy() and then
\* process.exit(0); nothing of the process runs after process.exit
Sigint ==
    /\ mode = "ui" /\ uiExit = Null
    /\ destroy
    /\ exitBy' = "SIGINT"
    /\ uiExit' = Some(0)
    /\ UNCHANGED <<mode, baseVars, execVars, unmount, isTTY, stdoutWrites, uiAppends, uiCalls>>

NextUi ==
    \/ Initialize
    \/ Destroy
    \/ \E text \in UiTexts : AppendOutputLog(text)
    \/ \E text \in UiReasoningTexts : AppendReasoningLog(text)
    \/ Sigint
    \/ \E d \in TickSteps : Tick(d)
    \/ \E t \in timers : Fire(t)

SpecUi == InitUi /\ [][NextUi]_vars

\* C23: once the UI is mounted, SIGINT at any point unmounts it through
\* destroy and ends the process with exit code 0, and no step of the program
\* follows the exit
C23_SigintUnmountsAndExitsZero ==
    [][/\ uiExit = Null
       /\ exitBy' = "SIGINT" =>
            /\ uiExit' = Some(0)
            /\ ~isInitialized'
            /\ isInitialized => inkCalls' = Append(inkCalls, "unmount")]_vars

C23_Witness ==
    /\ exitBy = "SIGINT"
    /\ uiCalls = 2
    /\ Len(uiAppends) = 1 /\ uiAppends[1].wasInit
    /\ inkCalls = <<"render", "unmount">>
    /\ uiExit = Some(0)

\* C24: render and unmount alternate starting with render, the UI is
\* initialized exactly between a render and its unmount, so that initialize
\* while initialized renders nothing and destroy while not initialized
\* unmounts nothing; without a TTY nothing is ever rendered
C24_RenderUnmountAlternate ==
    /\ \A k \in 1..Len(inkCalls) : inkCalls[k] = IF k % 2 = 1 THEN "render" ELSE "unmount"
    /\ isInitialized <=> Len(inkCalls) % 2 = 1
    /\ ~isTTY => inkCalls = <<>>

C24_Witness ==
    /\ isTTY
    /\ inkCalls = <<"render", "unmount", "render">>
    /\ uiCalls = 4 /\ uiAppends = <<>>

\* C25: every text passed to appendOutputLog or appendReasoningLog went to
\* exactly one sink: to the matching buffer of the store when the UI was
\* initialized at the call, to stdout unchanged when it was not
C25_OneSinkPerText ==
    /\ stdoutWrites = textsOf(uiAppends, 0, "any", FALSE)
    /\ lsOutputLog = concatenation(textsOf(uiAppends, lastDestroy, "output", TRUE))
    /\ lsReasoningLog = concatenation(textsOf(uiAppends, lastDestroy, "reasoning", TRUE))
    /\ nAppends = Len(textsOf(uiAppends, 0, "any", TRUE))

C25_Witness ==
    /\ Len(uiAppends) = 3
    /\ ~uiAppends[1].wasInit /\ uiAppends[2].wasInit /\ uiAppends[3].wasInit
    /\ uiAppends[2].kind = "output" /\ uiAppends[3].kind = "reasoning"
    /\ stdoutWrites # <<>> /\ lsOutputLog # <<>> /\ lsReasoningLog # <<>>

====
